---- MODULE Spec2Model ----
(***************************************************************************)
(* Model of the tensor query processor: TensorTable, the relational        *)
(* operators, the Spark plan parser, the IR optimizer, the planner and     *)
(* the executor (src/src/...).                                             *)
(***************************************************************************)
EXTENDS Integers, Sequences, FiniteSets, TLC

-----------------------------------------------------------------------------
(* Bounds *)

MaxRows == 3
MaxSteps == 4
MaxLegacySteps == 3
MaxNodes == 3
MaxChain == 2

\* The key values the input tables are drawn from.
KeyValues == {1, 2, 3}

-----------------------------------------------------------------------------
(* Generic helpers *)

None == <<>>
Some(x) == <<x>>

Range(s) == {s[i] : i \in DOMAIN s}

EmptyMap == [x \in {} |-> 0]

\* A call either returns a value or raises a Python exception.
Ok(v) == [exc |-> "", val |-> <<v>>]
Raise(e) == [exc |-> e, val |-> <<>>]

RECURSIVE Flatten(_)
Flatten(ss) == IF ss = <<>> THEN <<>> ELSE Head(ss) \o Flatten(Tail(ss))

\* The indices of s, ascending, at which s holds v: (s == v).nonzero()
RECURSIVE NonZeroEq(_, _, _)
NonZeroEq(s, v, from) ==
    IF from > Len(s) THEN <<>>
    ELSE (IF s[from] = v THEN <<from>> ELSE <<>>) \o NonZeroEq(s, v, from + 1)

-----------------------------------------------------------------------------
(* TensorTable: src/src/tensor/tensor_table.py                             *)
(* columns is an ordered name -> array mapping: names is the key order,    *)
(* cols the arrays. Row indices are 1-based here.                          *)

TensorTable(names, cols, schema) ==
    [names |-> names, cols |-> cols, schema |-> schema,
     num_rows |-> IF names = <<>> THEN 0 ELSE Len(cols[names[1]])]

EmptyTable == TensorTable(<<>>, EmptyMap, EmptyMap)

\* A two-column numeric table: the key column "id" and a payload column
\* holding the row number, so that rows with equal keys stay distinguishable.
InputTable(ids, payload) ==
    TensorTable(<<"id", payload>>,
                [c \in {"id", payload} |-> IF c = "id" THEN ids ELSE [k \in 1..Len(ids) |-> k]],
                [c \in {"id", payload} |-> "numeric"])

HasColumn(t, name) == name \in DOMAIN t.cols

\* tensor[idx] for an index array idx
Gather(col, idx) == [k \in 1..Len(idx) |-> col[idx[k]]]

-----------------------------------------------------------------------------
(* torch.argsort: every permutation that sorts the keys. The call is made  *)
(* without stable=True, so the order among equal keys is not fixed.        *)

Perms(n) == {p \in [1..n -> 1..n] : \A i, j \in 1..n : p[i] = p[j] => i = j}

argsort(keys, descending) ==
    {p \in Perms(Len(keys)) :
        \A i \in 1..(Len(keys) - 1) :
            IF descending THEN keys[p[i]] >= keys[p[i + 1]]
            ELSE keys[p[i]] <= keys[p[i + 1]]}

-----------------------------------------------------------------------------
(* RelationalOperators joins: src/src/relational_operator/relational_operator.py *)

\* The result table of a join from the output index pairs <<leftIdx, rightIdx>>.
Materialize(left, right, pairs) ==
    IF pairs = <<>> THEN Ok(EmptyTable)
    ELSE IF \E c \in Range(left.names) : c \notin DOMAIN left.schema THEN Raise("KeyError")
    ELSE IF \E c \in Range(right.names) : c \notin DOMAIN right.schema THEN Raise("KeyError")
    ELSE
      LET lidx == [k \in 1..Len(pairs) |-> pairs[k][1]]
          ridx == [k \in 1..Len(pairs) |-> pairs[k][2]]
          lnames == [k \in 1..Len(left.names) |-> "left_" \o left.names[k]]
          rnames == [k \in 1..Len(right.names) |-> "right_" \o right.names[k]]
          lsrc(n) == CHOOSE c \in Range(left.names) : "left_" \o c = n
          rsrc(n) == CHOOSE c \in Range(right.names) : "right_" \o c = n
          all == Range(lnames) \cup Range(rnames)
          cols == [n \in all |->
                     IF n \in Range(lnames) THEN Gather(left.cols[lsrc(n)], lidx)
                     ELSE Gather(right.cols[rsrc(n)], ridx)]
          schema == [n \in all |->
                     IF n \in Range(lnames) THEN left.schema[lsrc(n)]
                     ELSE right.schema[rsrc(n)]]
      IN Ok(TensorTable(lnames \o rnames, cols, schema))

\* A probe that stops at the first matching right row.
hash_join_dedup(left, right, left_key, right_key) ==
    IF ~HasColumn(left, left_key) \/ ~HasColumn(right, right_key) THEN {Raise("KeyError")}
    ELSE
      LET left_keys == left.cols[left_key]
          right_keys == right.cols[right_key]
          first(i) == LET m == NonZeroEq(right_keys, left_keys[i], 1)
                      IN IF m = <<>> THEN <<>> ELSE <<<<i, m[1]>>>>
          pairs == Flatten([i \in 1..Len(left_keys) |-> first(i)])
      IN {Materialize(left, right, pairs)}

\* hash_join: the probe loop scans right_keys for each left row in input order.
hash_join(left, right, left_key, right_key) ==
    IF ~HasColumn(left, left_key) \/ ~HasColumn(right, right_key) THEN {Raise("KeyError")}
    ELSE
      LET left_keys == left.cols[left_key]
          right_keys == right.cols[right_key]
          matches(i) == NonZeroEq(right_keys, left_keys[i], 1)
          row(i) == [k \in 1..Len(matches(i)) |-> <<i, matches(i)[k]>>]
          pairs == Flatten([i \in 1..Len(left_keys) |-> row(i)])
      IN {Materialize(left, right, pairs)}

\* A single-pass merge that keeps one right row per left row.
sort_merge_join_single(left, right, left_key, right_key) ==
    IF ~HasColumn(left, left_key) \/ ~HasColumn(right, right_key) THEN {Raise("KeyError")}
    ELSE
      LET left_keys == left.cols[left_key]
          right_keys == right.cols[right_key]
      IN { LET left_sorted == Gather(left_keys, lp)
               right_sorted == Gather(right_keys, rp)
               matches(i) == NonZeroEq(right_sorted, left_sorted[i], 1)
               row(i) == IF matches(i) = <<>> THEN <<>> ELSE <<<<lp[i], rp[matches(i)[1]]>>>>
               pairs == Flatten([i \in 1..Len(left_sorted) |-> row(i)])
           IN Materialize(left, right, pairs)
           : lp \in argsort(left_keys, FALSE), rp \in argsort(right_keys, FALSE) }

\* sort_merge_join: both key arrays are argsorted, then each sorted left row
\* is matched by an equality scan of the sorted right keys.
sort_merge_join(left, right, left_key, right_key) ==
    IF ~HasColumn(left, left_key) \/ ~HasColumn(right, right_key) THEN {Raise("KeyError")}
    ELSE
      LET left_keys == left.cols[left_key]
          right_keys == right.cols[right_key]
      IN { LET left_sorted == Gather(left_keys, lp)
               right_sorted == Gather(right_keys, rp)
               matches(i) == NonZeroEq(right_sorted, left_sorted[i], 1)
               row(i) == [k \in 1..Len(matches(i)) |-> <<lp[i], rp[matches(i)[k]]>>]
               pairs == Flatten([i \in 1..Len(left_sorted) |-> row(i)])
           IN Materialize(left, right, pairs)
           : lp \in argsort(left_keys, FALSE), rp \in argsort(right_keys, FALSE) }

-----------------------------------------------------------------------------
(* Expressions and ExpressionCompiler: src/src/ir/ir.py, src/src/expr/expr_compiler.py *)

Expression(expr_type, value, children) ==
    [expr_type |-> expr_type, value |-> value, children |-> children]

Column(name) == Expression("column", Some(name), <<>>)
Literal(v) == Expression("literal", Some(v), <<>>)
BinaryOp(kind, l, r) == Expression(kind, None, <<l, r>>)

\* The elementwise tensor operation of EXPR_OPS for one pair of elements.
\* Numeric arrays are modelled over the integers (true division is left out).
EXPR_OPS(kind, a, b) ==
    CASE kind = "add" -> a + b
      [] kind = "sub" -> a - b
      [] kind = "mul" -> a * b
      [] kind = "lt" -> a < b
      [] kind = "gt" -> a > b
      [] kind = "eq" -> a = b
      [] kind = "leq" -> a <= b
      [] kind = "geq" -> a >= b
      [] kind = "and" -> a /\ b
      [] kind = "or" -> a \/ b

ExprKinds == {"add", "sub", "mul", "lt", "gt", "eq", "leq", "geq", "and", "or"}

\* compile(expr, table): Ok(array) or the exception raised.
RECURSIVE compile(_, _)
compile(expr, table) ==
    IF expr.expr_type = "column" THEN
        IF HasColumn(table, expr.value[1]) THEN Ok(table.cols[expr.value[1]]) ELSE Raise("KeyError")
    ELSE IF expr.expr_type = "literal" THEN
        IF table.names = <<>> THEN Raise("IndexError")
        ELSE Ok([k \in 1..table.num_rows |-> expr.value[1]])
    ELSE
        LET operands == [k \in 1..Len(expr.children) |-> compile(expr.children[k], table)]
            failed == {k \in 1..Len(operands) : operands[k].exc # ""}
        IN IF failed # {} THEN operands[CHOOSE k \in failed : \A j \in failed : k <= j]
           ELSE IF expr.expr_type \notin ExprKinds THEN Raise("KeyError")
           ELSE IF Len(operands) # 2 THEN Raise("ValueError")
           ELSE LET a == operands[1].val[1]
                    b == operands[2].val[1]
                IN IF Len(a) # Len(b) THEN Raise("RuntimeError")
                   ELSE Ok([k \in 1..Len(a) |-> EXPR_OPS(expr.expr_type, a[k], b[k])])

-----------------------------------------------------------------------------
(* RelationalOperators scan / filter / project / sort / group_by           *)

\* scan(table_name, tables): tables[table_name]
scan(table_name, tables) ==
    IF table_name \in DOMAIN tables THEN {Ok(tables[table_name])} ELSE {Raise("KeyError")}

\* The positions, ascending, at which the mask is true.
RECURSIVE TrueAt(_, _)
TrueAt(mask, from) ==
    IF from > Len(mask) THEN <<>>
    ELSE (IF mask[from] THEN <<from>> ELSE <<>>) \o TrueAt(mask, from + 1)

\* The expression compiles to a boolean array (comparisons and boolean
\* connectives do; arithmetic, columns and literals of the numeric tables do not).
IsMask(expr) == expr.expr_type \in {"lt", "gt", "eq", "leq", "geq", "and", "or"}

\* filter that compacts the numeric columns only and leaves text columns whole
filter_numeric_only(table, condition) ==
    LET m == compile(condition, table)
    IN IF m.exc # "" THEN {m}
       ELSE IF \E c \in Range(table.names) : c \notin DOMAIN table.schema THEN {Raise("KeyError")}
       ELSE IF ~IsMask(condition) THEN {Raise("RuntimeError")}
       ELSE LET keep == TrueAt(m.val[1], 1)
            IN {Ok(TensorTable(table.names,
                               [c \in DOMAIN table.cols |->
                                   IF table.schema[c] = "string" THEN table.cols[c]
                                   ELSE Gather(table.cols[c], keep)],
                               table.schema))}

\* filter(table, condition): torch.masked_select / boolean indexing need a boolean mask
filter(table, condition) ==
    LET m == compile(condition, table)
    IN IF m.exc # "" THEN {m}
       ELSE IF \E c \in Range(table.names) : c \notin DOMAIN table.schema THEN {Raise("KeyError")}
       ELSE IF ~IsMask(condition) THEN {Raise("RuntimeError")}
       ELSE LET keep == TrueAt(m.val[1], 1)
            IN {Ok(TensorTable(table.names,
                               [c \in DOMAIN table.cols |-> Gather(table.cols[c], keep)],
                               table.schema))}

\* The first occurrence of each name, in order: the key order of a dict
\* built by a comprehension over columns.
RECURSIVE DictKeys(_, _)
DictKeys(names, seen) ==
    IF names = <<>> THEN <<>>
    ELSE IF Head(names) \in seen THEN DictKeys(Tail(names), seen)
    ELSE <<Head(names)>> \o DictKeys(Tail(names), seen \cup {Head(names)})

\* A projection that hands the whole schema of its input to the result
project_keeps_schema(table, columns) ==
    IF \E c \in Range(columns) : c \notin DOMAIN table.cols \/ c \notin DOMAIN table.schema
    THEN {Raise("KeyError")}
    ELSE {Ok(TensorTable(DictKeys(columns, {}),
                         [c \in Range(columns) |-> table.cols[c]],
                         table.schema))}

project(table, columns) ==
    IF \E c \in Range(columns) : c \notin DOMAIN table.cols \/ c \notin DOMAIN table.schema
    THEN {Raise("KeyError")}
    ELSE {Ok(TensorTable(DictKeys(columns, {}),
                         [c \in Range(columns) |-> table.cols[c]],
                         [c \in Range(columns) |-> table.schema[c]]))}

sort(table, key_column, ascending) ==
    IF ~HasColumn(table, key_column) THEN {Raise("KeyError")}
    ELSE {Ok(TensorTable(table.names,
                         [c \in DOMAIN table.cols |-> Gather(table.cols[c], sorted_indices)],
                         table.schema))
          : sorted_indices \in argsort(table.cols[key_column], ~ascending)}

RECURSIVE SumSeq(_)
SumSeq(s) == IF s = <<>> THEN 0 ELSE Head(s) + SumSeq(Tail(s))

SetMin(S) == CHOOSE x \in S : \A y \in S : x <= y
SetMax(S) == CHOOSE x \in S : \A y \in S : x >= y

RECURSIVE Gcd(_, _)
Gcd(a, b) == IF b = 0 THEN a ELSE Gcd(b, a % b)

\* sum_result / count_result as a reduced fraction (count is positive).
Quotient(sum, count) ==
    LET g == Gcd(IF sum < 0 THEN -sum ELSE sum, count)
    IN [num |-> sum \div g, den |-> count \div g]

\* torch.unique_consecutive of a sorted array
RECURSIVE unique_consecutive(_)
unique_consecutive(s) ==
    IF Len(s) <= 1 THEN s
    ELSE IF s[1] = s[2] THEN unique_consecutive(Tail(s))
    ELSE <<s[1]>> \o unique_consecutive(Tail(s))

\* The composite group key: group_tensor * 10000 + gt over the group columns
RECURSIVE GroupTensor(_, _, _)
GroupTensor(table, group_cols, acc) ==
    IF group_cols = <<>> THEN acc
    ELSE GroupTensor(table, Tail(group_cols),
                     [k \in 1..Len(acc) |-> acc[k] * 10000 + table.cols[Head(group_cols)][k]])

AggFns == {"sum", "count", "avg", "min", "max"}

group_by(table, group_cols, agg_col, agg_func) ==
    IF group_cols = <<>> THEN {Raise("IndexError")}
    ELSE IF \E c \in Range(group_cols) : ~HasColumn(table, c) THEN {Raise("KeyError")}
    ELSE IF ~HasColumn(table, agg_col) THEN {Raise("KeyError")}
    ELSE IF agg_func \notin AggFns THEN {Raise("ValueError")}
    ELSE IF group_cols[1] \notin DOMAIN table.schema THEN {Raise("KeyError")}
    ELSE
      LET group_tensor == GroupTensor(table, Tail(group_cols), table.cols[group_cols[1]])
          agg_name == agg_func \o "_" \o agg_col
      IN { LET sorted_groups == Gather(group_tensor, sorted_indices)
               sorted_agg_col == Gather(table.cols[agg_col], sorted_indices)
               unique_groups == unique_consecutive(sorted_groups)
               members(g) == SelectSeq([k \in 1..Len(sorted_groups) |->
                                          <<sorted_groups[k], sorted_agg_col[k]>>],
                                       LAMBDA e : e[1] = unique_groups[g])
               vals(g) == [k \in 1..Len(members(g)) |-> members(g)[k][2]]
               agg_result == [g \in 1..Len(unique_groups) |->
                   CASE agg_func = "sum" -> SumSeq(vals(g))
                     [] agg_func = "count" -> Len(vals(g))
                     [] agg_func = "avg" -> Quotient(SumSeq(vals(g)), Len(vals(g)))
                     [] agg_func = "min" -> SetMin(Range(vals(g)))
                     [] agg_func = "max" -> SetMax(Range(vals(g)))]
               names == DictKeys(<<group_cols[1], agg_name>>, {})
           IN Ok(TensorTable(names,
                             [c \in Range(names) |-> IF c = agg_name THEN agg_result ELSE unique_groups],
                             [c \in Range(names) |-> IF c = agg_name THEN "numeric"
                                                     ELSE table.schema[group_cols[1]]]))
           : sorted_indices \in argsort(group_tensor, FALSE) }

-----------------------------------------------------------------------------
(* Operator implementations as callables                                   *)
(* An argument of a call is tagged with the kind of Python value it is:    *)
(* "table" (TensorTable), "list" (list of tables), "dict" (a params map),  *)
(* "str", "strlist", "expr", "bool", "agglist", "env" (name -> table map). *)

Arg(k, v) == [k |-> k, v |-> v]

\* A params map: every recognised key is None (absent) or Some(value).
\* isdict = FALSE stands for a params value that is not a dict at all.
NoParams ==
    [isdict |-> TRUE, table |-> None, input |-> None, schema |-> None,
     condition |-> None, columns |-> None, key |-> None, ascending |-> None,
     left_key |-> None, right_key |-> None, join_type |-> None,
     group_cols |-> None, agg_exprs |-> None]

ParamKeys ==
    <<"table", "input", "schema", "condition", "columns", "key", "ascending",
      "left_key", "right_key", "join_type", "group_cols", "agg_exprs">>

\* The keys present in a params dict, in a fixed order.
Keys(params) == SelectSeq(ParamKeys, LAMBDA k : params[k] # None)

ParamKind(k) ==
    CASE k \in {"table", "input", "key", "left_key", "right_key", "join_type"} -> "str"
      [] k \in {"columns", "group_cols"} -> "strlist"
      [] k = "condition" -> "expr"
      [] k = "ascending" -> "bool"
      [] k = "agg_exprs" -> "agglist"
      [] k = "schema" -> "dict"

\* **params: keyword name -> argument
Kwargs(params) == [k \in Range(Keys(params)) |-> Arg(ParamKind(k), params[k][1])]

NoKwargs == [k \in {} |-> Arg("str", "")]

\* The callables a program may carry: the seven RelationalOperators and
\* caller-supplied operators of the call shapes the executor adapts to.
RealImpls == {"scan", "filter", "project", "sort", "sort_merge_join", "hash_join", "group_by"}
StubImpls == {"op_inputs_params", "op_table_kwargs", "op_table", "op_noargs", "op_raises"}

\* def signatures: positional parameter names, how many of them are required,
\* and whether *args / **kwargs are accepted.
Signature(impl) ==
    CASE impl = "scan" ->
           [pos |-> <<"table_name", "tables">>, nreq |-> 2, varargs |-> FALSE, varkw |-> FALSE]
      [] impl = "filter" ->
           [pos |-> <<"table", "condition">>, nreq |-> 2, varargs |-> FALSE, varkw |-> FALSE]
      [] impl = "project" ->
           [pos |-> <<"table", "columns">>, nreq |-> 2, varargs |-> FALSE, varkw |-> FALSE]
      [] impl = "sort" ->
           [pos |-> <<"table", "key_column", "ascending">>, nreq |-> 2, varargs |-> FALSE, varkw |-> FALSE]
      [] impl \in {"sort_merge_join", "hash_join"} ->
           [pos |-> <<"left", "right", "left_key", "right_key">>, nreq |-> 4, varargs |-> FALSE, varkw |-> FALSE]
      [] impl = "group_by" ->
           [pos |-> <<"table", "group_cols", "agg_col", "agg_func">>, nreq |-> 4, varargs |-> FALSE, varkw |-> FALSE]
      [] impl \in {"op_inputs_params", "op_raises"} ->
           [pos |-> <<"inputs", "params">>, nreq |-> 2, varargs |-> FALSE, varkw |-> FALSE]
      [] impl = "op_table_kwargs" ->
           [pos |-> <<"table">>, nreq |-> 1, varargs |-> FALSE, varkw |-> TRUE]
      [] impl = "op_table" ->
           [pos |-> <<"table">>, nreq |-> 1, varargs |-> FALSE, varkw |-> FALSE]
      [] impl = "op_noargs" ->
           [pos |-> <<>>, nreq |-> 0, varargs |-> FALSE, varkw |-> FALSE]

\* Python's argument binding: FALSE is the TypeError of a call whose
\* positional count or keyword names do not fit the signature.
Binds(sig, npos, kwnames) ==
    LET filled == {sig.pos[i] : i \in 1..(IF npos <= Len(sig.pos) THEN npos ELSE Len(sig.pos))}
    IN /\ npos <= Len(sig.pos) \/ sig.varargs
       /\ \A k \in kwnames : IF k \in Range(sig.pos) THEN k \notin filled ELSE sig.varkw
       /\ \A i \in 1..sig.nreq : i <= npos \/ sig.pos[i] \in kwnames

\* The argument bound to parameter number i (the only default is sort's ascending=True).
BoundArg(sig, pos, kw, i) ==
    IF i <= Len(pos) THEN pos[i]
    ELSE IF sig.pos[i] \in DOMAIN kw THEN kw[sig.pos[i]]
    ELSE Arg("bool", TRUE)

\* What a caller-supplied operator returns: a one-column table recording the
\* number of positional and of keyword arguments it was called with.
StubResult(npos, nkw) ==
    TensorTable(<<"n">>, [c \in {"n"} |-> <<npos, nkw>>], [c \in {"n"} |-> "numeric"])

\* The body of an implementation on its bound arguments a[1..]: the set of
\* outcomes. Arguments of a kind the body cannot use raise what Python raises.
Body(impl, a, npos, nkw) ==
    CASE impl = "scan" ->
           IF a[2].k = "env" /\ a[1].k = "str" THEN scan(a[1].v, a[2].v)
           ELSE IF a[2].k \in {"env", "dict"} /\ a[1].k \notin {"list", "dict", "strlist", "agglist"}
                THEN {Raise("KeyError")}
           ELSE {Raise("TypeError")}
      [] impl = "filter" ->
           IF a[2].k # "expr" \/ a[1].k # "table" THEN {Raise("AttributeError")}
           ELSE filter(a[1].v, a[2].v)
      [] impl = "project" ->
           IF a[2].k \notin {"strlist", "dict"} THEN {Raise("TypeError")}
           ELSE LET columns == IF a[2].k = "dict" THEN Keys(a[2].v) ELSE a[2].v
                IN IF columns = <<>> THEN {Ok(EmptyTable)}
                   ELSE IF a[1].k # "table" THEN {Raise("AttributeError")}
                   ELSE project(a[1].v, columns)
      [] impl = "sort" ->
           IF a[1].k # "table" THEN {Raise("AttributeError")}
           ELSE IF a[2].k = "table" THEN {Raise("KeyError")}
           ELSE IF a[2].k # "str" THEN {Raise("TypeError")}
           ELSE sort(a[1].v, a[2].v, a[3].k # "bool" \/ a[3].v)
      [] impl \in {"sort_merge_join", "hash_join"} ->
           IF a[1].k # "table" \/ a[2].k # "table" THEN {Raise("AttributeError")}
           ELSE IF a[3].k # "str" \/ a[4].k # "str" THEN {Raise("TypeError")}
           ELSE IF impl = "hash_join" THEN hash_join(a[1].v, a[2].v, a[3].v, a[4].v)
           ELSE sort_merge_join(a[1].v, a[2].v, a[3].v, a[4].v)
      [] impl = "group_by" ->
           IF a[1].k # "table" THEN {Raise("AttributeError")}
           ELSE IF a[2].k # "strlist" \/ a[3].k # "str" \/ a[4].k # "str" THEN {Raise("TypeError")}
           ELSE group_by(a[1].v, a[2].v, a[3].v, a[4].v)
      [] impl = "op_raises" -> {Raise("ValueError")}
      [] OTHER -> {Ok(StubResult(npos, nkw))}

\* op_func(*pos, **kw): the set of outcomes of one call.
Call(impl, pos, kw) ==
    LET sig == Signature(impl)
    IN IF ~Binds(sig, Len(pos), DOMAIN kw) THEN {Raise("TypeError")}
       ELSE Body(impl, [i \in 1..Len(sig.pos) |-> BoundArg(sig, pos, kw, i)],
                 Len(pos), Cardinality(DOMAIN kw))

-----------------------------------------------------------------------------
(* TQPExecutor: src/src/executor/tqp_executor.py                           *)

\* An exception leaving execute: its Python type, the failure it reports
\* and the names its message carries.
Err(type, what, detail) == [type |-> type, what |-> what, detail |-> detail]
NoErr == Err("", "", <<>>)

\* One invocation of an operator implementation, as the adapter made it.
CallEntry(impl, shape, pos, kwnames, exc) ==
    [impl |-> impl, shape |-> shape, pos |-> pos, kwnames |-> kwnames, exc |-> exc]

Digits == <<"0", "1", "2", "3", "4", "5", "6", "7", "8", "9">>

RECURSIVE ToStr(_)
ToStr(n) == IF n < 10 THEN Digits[n + 1] ELSE ToStr(n \div 10) \o Digits[(n % 10) + 1]

\* f"__tmp{tmp_counter}"
TmpName(n) == "__tmp" \o ToStr(n)

pending_key == "__pending_join"

\* env[name] = value
Put(env, name, value) ==
    [n \in DOMAIN env \cup {name} |-> IF n = name THEN value ELSE env[n]]

\* env.pop(name)
Pop(env, name) == [n \in DOMAIN env \ {name} |-> env[n]]

\* _resolve_legacy_input(last_name, params, env)
ResolveTableFirst(last_name, params, env) ==
    LET table_name == IF params.table # None /\ params.table[1] # "" THEN params.table
                      ELSE params.input
    IN IF table_name # None /\ table_name[1] # "" THEN
            IF table_name[1] \notin DOMAIN env
            THEN [err |-> Err("KeyError", "UnknownTable", table_name), val |-> None]
            ELSE [err |-> NoErr, val |-> Some(env[table_name[1]])]
       ELSE IF last_name # "" THEN
            IF last_name \notin DOMAIN env
            THEN [err |-> Err("KeyError", "UnknownName", <<last_name>>), val |-> None]
            ELSE [err |-> NoErr, val |-> Some(env[last_name])]
       ELSE [err |-> Err("RuntimeError", "NoInputAvailable", <<>>), val |-> None]

_resolve_legacy_input(last_name, params, env) ==
    IF last_name # "" THEN
        IF last_name \notin DOMAIN env
        THEN [err |-> Err("KeyError", "UnknownName", <<last_name>>), val |-> None]
        ELSE [err |-> NoErr, val |-> Some(env[last_name])]
    ELSE
        LET table_name == IF params.table # None /\ params.table[1] # "" THEN params.table
                          ELSE params.input
        IN IF table_name # None /\ table_name[1] # "" THEN
                IF table_name[1] \notin DOMAIN env
                THEN [err |-> Err("KeyError", "UnknownTable", table_name), val |-> None]
                ELSE [err |-> NoErr, val |-> Some(env[table_name[1]])]
           ELSE [err |-> Err("RuntimeError", "NoInputAvailable", <<>>), val |-> None]

\* The outcome of an adapted call: the invocations made, in order, and
\* either the table returned or the exception that leaves the adapter.
CallOut(calls, err, val) == [calls |-> calls, err |-> err, val |-> val]

Finished(shape, impl, pos, kwnames, o, before) ==
    CallOut(before \o <<CallEntry(impl, shape, pos, kwnames, o.exc)>>,
            IF o.exc = "" THEN NoErr ELSE Err(o.exc, "OperatorRaised", <<>>),
            o.val)

TablesAsArgs(inputs) == [i \in 1..Len(inputs) |-> Arg("table", inputs[i])]

\* An adapter that tries the positional-only shape first.
CallPositionalFirst(op_func, inputs, params) ==
    LET pos1 == <<Arg("list", inputs), Arg("dict", params)>>
        posN == TablesAsArgs(inputs)
        kw == Kwargs(params)
    IN UNION {
         IF o3.exc # "TypeError" THEN {Finished("args", op_func, posN, {}, o3, <<>>)}
         ELSE UNION {
           LET c3 == <<CallEntry(op_func, "args", posN, {}, o3.exc)>>
           IN IF o1.exc # "TypeError" THEN {Finished("inputs_params", op_func, pos1, {}, o1, c3)}
              ELSE { IF o2.exc # "TypeError"
                     THEN Finished("args_kwargs", op_func, posN, DOMAIN kw, o2,
                                   c3 \o <<CallEntry(op_func, "inputs_params", pos1, {}, o1.exc)>>)
                     ELSE CallOut(c3 \o <<CallEntry(op_func, "inputs_params", pos1, {}, o1.exc),
                                          CallEntry(op_func, "args_kwargs", posN, DOMAIN kw, o2.exc)>>,
                                  Err("TypeError", "OperatorCallFailed", <<>>), None)
                     : o2 \in Call(op_func, posN, kw) }
           : o1 \in Call(op_func, pos1, NoKwargs) }
         : o3 \in Call(op_func, posN, NoKwargs) }

\* _call_op_flexible(op_func, inputs, params): op_func(inputs, params), then
\* op_func(*inputs, **params), then op_func(*inputs); a TypeError moves on
\* to the next shape, any other exception propagates.
_call_op_flexible(op_func, inputs, params) ==
    LET pos1 == <<Arg("list", inputs), Arg("dict", params)>>
        posN == TablesAsArgs(inputs)
        kw == Kwargs(params)
    IN UNION {
         IF o1.exc # "TypeError" THEN {Finished("inputs_params", op_func, pos1, {}, o1, <<>>)}
         ELSE UNION {
           LET c1 == <<CallEntry(op_func, "inputs_params", pos1, {}, o1.exc)>>
           IN IF o2.exc # "TypeError" THEN {Finished("args_kwargs", op_func, posN, DOMAIN kw, o2, c1)}
              ELSE { IF o3.exc # "TypeError"
                     THEN Finished("args", op_func, posN, {}, o3,
                                   c1 \o <<CallEntry(op_func, "args_kwargs", posN, DOMAIN kw, o2.exc)>>)
                     ELSE CallOut(c1 \o <<CallEntry(op_func, "args_kwargs", posN, DOMAIN kw, o2.exc),
                                          CallEntry(op_func, "args", posN, {}, o3.exc)>>,
                                  Err("TypeError", "OperatorCallFailed", <<>>), None)
                     : o3 \in Call(op_func, posN, NoKwargs) }
           : o2 \in Call(op_func, posN, kw) }
         : o1 \in Call(op_func, pos1, NoKwargs) }

\* try: op_func(*direct) except TypeError: _call_op_flexible(op_func, inputs, params)
CallLegacy(op_func, direct, inputs, params) ==
    UNION {
      IF o.exc # "TypeError" THEN {Finished("direct", op_func, direct, {}, o, <<>>)}
      ELSE { CallOut(<<CallEntry(op_func, "direct", direct, {}, o.exc)>> \o f.calls, f.err, f.val)
             : f \in _call_op_flexible(op_func, inputs, params) }
      : o \in Call(op_func, direct, NoKwargs) }

\* A program element. type is "dict" (explicit node), "tuple" (legacy
\* triple) or "other" (anything else); op_func and output are None when absent.
PlanElem(type, op, op_func, inputs, output, params) ==
    [type |-> type, op |-> op, op_func |-> op_func, inputs |-> inputs,
     output |-> output, params |-> params]

\* What one pass through the loop body leaves behind: the locals of execute,
\* the branch taken (event), the input it resolved, the invocations it made
\* and the exception it raised, if any.
StepOut(env, last_name, tmp_counter, event, input, calls, err) ==
    [env |-> env, last_name |-> last_name, tmp_counter |-> tmp_counter,
     event |-> event, input |-> input, calls |-> calls, err |-> err]

\* Store the result of call c under output_name, or pass on what it raised.
Store(env, last_name, output_name, tmp_counter, event, input, c) ==
    IF c.err # NoErr
    THEN StepOut(env, last_name, tmp_counter, event, input, c.calls, c.err)
    ELSE StepOut(Put(env, output_name, c.val[1]), output_name, tmp_counter,
                 event, input, c.calls, NoErr)

Failed(env, last_name, tmp_counter, event, input, err) ==
    {StepOut(env, last_name, tmp_counter, event, input, <<>>, err)}

\* A node that calls the operator before it validates its inputs.
ExplicitNodeUnchecked(elem, env, last_name, tmp_counter) ==
    IF elem.op_func = None
    THEN Failed(env, last_name, tmp_counter, "explicit", None, Err("ValueError", "MissingOpFunc", <<>>))
    ELSE
      LET present == SelectSeq(elem.inputs, LAMBDA n : n \in DOMAIN env)
          inputs_vals == [i \in 1..Len(present) |-> env[present[i]]]
          named == elem.output # None /\ elem.output[1] # ""
          output_name == IF named THEN elem.output[1] ELSE TmpName(tmp_counter)
          counter == IF named THEN tmp_counter ELSE tmp_counter + 1
      IN { Store(env, last_name, output_name, IF c.err = NoErr THEN counter ELSE tmp_counter,
                 "explicit", None, c)
           : c \in _call_op_flexible(elem.op_func[1], inputs_vals, elem.params) }

\* execute, new-style node branch (isinstance(elem, dict))
ExplicitNode(elem, env, last_name, tmp_counter) ==
    IF elem.op_func = None
    THEN Failed(env, last_name, tmp_counter, "explicit", None, Err("ValueError", "MissingOpFunc", <<>>))
    ELSE
      LET missing == SelectSeq(elem.inputs, LAMBDA n : n \notin DOMAIN env)
      IN IF missing # <<>>
         THEN Failed(env, last_name, tmp_counter, "explicit", None, Err("KeyError", "MissingInput", missing))
         ELSE
           LET inputs_vals == [i \in 1..Len(elem.inputs) |-> env[elem.inputs[i]]]
               named == elem.output # None /\ elem.output[1] # ""
               output_name == IF named THEN elem.output[1] ELSE TmpName(tmp_counter)
               counter == IF named THEN tmp_counter ELSE tmp_counter + 1
           IN { Store(env, last_name, output_name, IF c.err = NoErr THEN counter ELSE tmp_counter,
                      "explicit", None, c)
                : c \in _call_op_flexible(elem.op_func[1], inputs_vals, elem.params) }

\* A group_by branch that uses the last aggregate expression instead of the first
LegacySingleLastAgg(op_name, op_func, params, env, last_name, counter, output_name) ==
    LET r == _resolve_legacy_input(last_name, params, env)
        input_val == r.val[1]
        fail(what) == Failed(env, last_name, counter, op_name, r.val, Err("KeyError", what, <<>>))
        done(calls) == {Store(env, last_name, output_name, counter, op_name, r.val, c) : c \in calls}
    IN IF r.err # NoErr THEN Failed(env, last_name, counter, op_name, None, r.err)
       ELSE IF op_name # "group_by" THEN done(_call_op_flexible(op_func, <<input_val>>, params))
       ELSE IF params.agg_exprs = None \/ params.agg_exprs[1] = <<>>
       THEN fail("MissingParam_agg_exprs")
       ELSE LET agg_expr == params.agg_exprs[1][Len(params.agg_exprs[1])]
            IN IF params.group_cols = None \/ agg_expr.column = None \/ agg_expr.function = None
               THEN fail("MissingParam_group_by")
               ELSE done(CallLegacy(op_func,
                                    <<Arg("table", input_val), Arg("strlist", params.group_cols[1]),
                                      Arg("str", agg_expr.column[1]),
                                      Arg("str", agg_expr.function[1])>>,
                                    <<input_val>>, params))

\* The legacy branches with one input: resolve it, check the required
\* params, call with the op's positional shape, store under the generated name.
LegacySingle(op_name, op_func, params, env, last_name, counter, output_name) ==
    LET r == _resolve_legacy_input(last_name, params, env)
        input_val == r.val[1]
        table == Arg("table", input_val)
        fail(what) == Failed(env, last_name, counter, op_name, r.val, Err("KeyError", what, <<>>))
        done(calls) == {Store(env, last_name, output_name, counter, op_name, r.val, c) : c \in calls}
    IN IF r.err # NoErr THEN Failed(env, last_name, counter, op_name, None, r.err)
       ELSE CASE op_name = "scan" ->
                   done(_call_op_flexible(op_func, <<input_val>>, params))
              [] op_name = "filter" ->
                   IF params.condition = None THEN fail("MissingParam_condition")
                   ELSE done(CallLegacy(op_func, <<table, Arg("expr", params.condition[1])>>,
                                        <<input_val>>, params))
              [] op_name = "project" ->
                   IF params.columns = None THEN fail("MissingParam_columns")
                   ELSE done(CallLegacy(op_func, <<table, Arg("strlist", params.columns[1])>>,
                                        <<input_val>>, params))
              [] op_name = "sort" ->
                   IF params.key = None THEN fail("MissingParam_key")
                   ELSE done(CallLegacy(op_func,
                                        <<table, Arg("str", params.key[1]),
                                          Arg("bool", IF params.ascending = None THEN TRUE
                                                      ELSE params.ascending[1])>>,
                                        <<input_val>>, params))
              [] op_name = "group_by" ->
                   IF params.agg_exprs = None \/ params.agg_exprs[1] = <<>>
                   THEN fail("MissingParam_agg_exprs")
                   ELSE LET agg_expr == params.agg_exprs[1][1]
                        IN IF params.group_cols = None \/ agg_expr.column = None
                              \/ agg_expr.function = None
                           THEN fail("MissingParam_group_by")
                           ELSE done(CallLegacy(op_func,
                                                <<table, Arg("strlist", params.group_cols[1]),
                                                  Arg("str", agg_expr.column[1]),
                                                  Arg("str", agg_expr.function[1])>>,
                                                <<input_val>>, params))

\* execute, legacy sort_join / hash_join branch
LegacyJoin(op_name, op_func, params, env, last_name, counter, output_name) ==
    IF pending_key \notin DOMAIN env THEN
        IF last_name = ""
        THEN Failed(env, last_name, counter, "stash", None,
                    Err("RuntimeError", "JoinOperandMissing", <<"left">>))
        ELSE IF last_name \notin DOMAIN env
        THEN Failed(env, last_name, counter, "stash", None,
                    Err("KeyError", "UnknownName", <<last_name>>))
        ELSE {StepOut(Put(env, pending_key, env[last_name]), "", counter,
                      "stash", None, <<>>, NoErr)}
    ELSE
        IF last_name = ""
        THEN Failed(env, last_name, counter, "join", None,
                    Err("RuntimeError", "JoinOperandMissing", <<"right">>))
        ELSE
          LET left == env[pending_key]
              popped == Pop(env, pending_key)
          IN IF last_name \notin DOMAIN popped
             THEN Failed(popped, last_name, counter, "join", None,
                         Err("KeyError", "UnknownName", <<last_name>>))
             ELSE IF params.left_key = None \/ params.right_key = None
             THEN Failed(popped, last_name, counter, "join", None,
                         Err("KeyError", "MissingParam_join_keys", <<>>))
             ELSE
               LET right == popped[last_name]
               IN { Store(popped, last_name, output_name, counter, "join", None, c)
                    : c \in CallLegacy(op_func,
                                       <<Arg("table", left), Arg("table", right),
                                         Arg("str", params.left_key[1]),
                                         Arg("str", params.right_key[1])>>,
                                       <<left, right>>, params) }

\* execute, legacy branch for any other op name
LegacyGeneric(op_name, op_func, params, env, last_name, counter, output_name) ==
    LET inputs_vals == IF last_name # "" /\ last_name \in DOMAIN env THEN <<env[last_name]>> ELSE <<>>
    IN IF last_name # "" /\ last_name \notin DOMAIN env
       THEN Failed(env, last_name, counter, "generic", None,
                   Err("KeyError", "UnknownName", <<last_name>>))
       ELSE { Store(env, last_name, output_name, counter, "generic", None, c)
              : c \in _call_op_flexible(op_func, inputs_vals, params) }

\* execute, legacy triple branch (isinstance(elem, tuple) and len(elem) == 3)
LegacyTriple(elem, env, last_name, tmp_counter) ==
    IF ~elem.params.isdict
    THEN Failed(env, last_name, tmp_counter, "legacy", None, Err("ValueError", "ParamsNotDict", <<>>))
    ELSE
      LET output_name == TmpName(tmp_counter)
          counter == tmp_counter + 1
          op_func == elem.op_func[1]
      IN IF elem.op \in {"scan", "filter", "project", "sort", "group_by"}
         THEN LegacySingle(elem.op, op_func, elem.params, env, last_name, counter, output_name)
         ELSE IF elem.op \in {"sort_join", "hash_join"}
         THEN LegacyJoin(elem.op, op_func, elem.params, env, last_name, counter, output_name)
         ELSE LegacyGeneric(elem.op, op_func, elem.params, env, last_name, counter, output_name)

\* The loop body of execute for one element.
StepOutcomes(elem, env, last_name, tmp_counter) ==
    IF elem.type = "dict" THEN ExplicitNode(elem, env, last_name, tmp_counter)
    ELSE IF elem.type = "tuple" THEN LegacyTriple(elem, env, last_name, tmp_counter)
    ELSE Failed(env, last_name, tmp_counter, "unsupported", None,
                Err("TypeError", "UnsupportedPlanElement", <<>>))

\* A resolution that looks at the last result before the final entry.
FinalResultLastFirst(env, last_name) ==
    IF last_name # "" /\ last_name \in DOMAIN env THEN [err |-> NoErr, val |-> Some(env[last_name])]
    ELSE IF "final" \in DOMAIN env THEN [err |-> NoErr, val |-> Some(env["final"])]
    ELSE [err |-> Err("RuntimeError", "EmptyResult", <<>>), val |-> None]

\* execute, final-result resolution
FinalResult(env, last_name) ==
    IF "final" \in DOMAIN env THEN [err |-> NoErr, val |-> Some(env["final"])]
    ELSE IF last_name # "" /\ last_name \in DOMAIN env THEN [err |-> NoErr, val |-> Some(env[last_name])]
    ELSE [err |-> Err("RuntimeError", "EmptyResult", <<>>), val |-> None]

\* execute as a whole: the loop from element i on, then the final-result
\* resolution; the set of ways the call can end.
RECURSIVE RunFrom(_, _, _, _, _)
RunFrom(program, i, env, last_name, tmp_counter) ==
    IF i > Len(program)
    THEN LET r == FinalResult(env, last_name)
         IN IF r.err = NoErr
            THEN {[status |-> "returned", error |-> NoErr, result |-> r.val]}
            ELSE {[status |-> "raised", error |-> r.err, result |-> None]}
    ELSE UNION { IF o.err # NoErr
                 THEN {[status |-> "raised", error |-> o.err, result |-> None]}
                 ELSE RunFrom(program, i + 1, o.env, o.last_name, o.tmp_counter)
                 : o \in StepOutcomes(program[i], env, last_name, tmp_counter) }

execute(program, initial_tables) ==
    IF program = <<>>
    THEN {[status |-> "raised", error |-> Err("ValueError", "EmptyPlan", <<>>), result |-> None]}
    ELSE RunFrom(program, 1, initial_tables, "", 0)

-----------------------------------------------------------------------------
(* Plan trees, SparkPhysicalPlanParser, IRNode, IROptimizer, TQPPlanner:   *)
(* src/src/spark/physical_plan_parser.py, src/src/ir/ir.py,                *)
(* src/src/ir/optimizer.py, src/src/planner/tqp_planner.py                 *)

\* A node of the external plan tree (the dict spark_plan.to_dict() returns):
\* its type, its scalar entries, and its child / left / right subtrees.
SparkNode(type, attrs, child, left, right) ==
    [type |-> type, attrs |-> attrs, child |-> child, left |-> left, right |-> right]

\* A condition dict: op with name / value / left / right as the op needs.
Cond(op, name, value, left, right) ==
    [op |-> op, name |-> name, value |-> value, left |-> left, right |-> right]

IRNode(op_type, children, params) ==
    [op_type |-> op_type, children |-> children, params |-> params]

ParseOk(v) == [err |-> NoErr, val |-> Some(v)]
\* A parser that puts an empty leaf in the place of a node of unknown type
\* instead of raising
ParseFailPartial(what, detail) ==
    IF what = "UnsupportedNodeKind"
    THEN [err |-> NoErr, val |-> Some(IRNode("scan", <<>>, NoParams))]
    ELSE [err |-> Err("ValueError", what, <<detail>>), val |-> None]
ParseFail(what, detail) == [err |-> Err("ValueError", what, <<detail>>), val |-> None]

\* SparkPhysicalPlanParser._parse_condition
RECURSIVE _parse_condition(_)
_parse_condition(cond) ==
    CASE cond.op = "column" -> ParseOk(Expression("column", cond.name, <<>>))
      [] cond.op = "literal" -> ParseOk(Expression("literal", cond.value, <<>>))
      [] cond.op \in {"<", ">", "="} ->
           LET l == _parse_condition(cond.left[1])
           IN IF l.err # NoErr THEN l
              ELSE LET r == _parse_condition(cond.right[1])
                   IN IF r.err # NoErr THEN r
                      ELSE ParseOk(Expression(CASE cond.op = "<" -> "lt"
                                                [] cond.op = ">" -> "gt"
                                                [] cond.op = "=" -> "eq",
                                              None, <<l.val[1], r.val[1]>>))
      [] OTHER -> ParseFail("UnsupportedConditionOperator", cond.op)

\* SparkPhysicalPlanParser._parse_node
RECURSIVE _parse_node(_)
_parse_node(node) ==
    LET unary(op_type, params) ==
            LET child_ir == _parse_node(node.child[1])
            IN IF child_ir.err # NoErr THEN child_ir
               ELSE ParseOk(IRNode(op_type, <<child_ir.val[1]>>, params))
        join(op_type) ==
            LET left_ir == _parse_node(node.left[1])
            IN IF left_ir.err # NoErr THEN left_ir
               ELSE LET right_ir == _parse_node(node.right[1])
                    IN IF right_ir.err # NoErr THEN right_ir
                       ELSE ParseOk(IRNode(op_type, <<left_ir.val[1], right_ir.val[1]>>,
                                           [NoParams EXCEPT !.left_key = node.attrs.left_key,
                                                            !.right_key = node.attrs.right_key,
                                                            !.join_type = node.attrs.join_type]))
    IN CASE node.type = "FileScan" ->
              ParseOk(IRNode("scan", <<>>, [NoParams EXCEPT !.table = node.attrs.table,
                                                            !.schema = node.attrs.schema]))
         [] node.type = "Filter" ->
              LET child_ir == _parse_node(node.child[1])
              IN IF child_ir.err # NoErr THEN child_ir
                 ELSE LET condition == _parse_condition(node.attrs.condition[1])
                      IN IF condition.err # NoErr THEN condition
                         ELSE ParseOk(IRNode("filter", <<child_ir.val[1]>>,
                                             [NoParams EXCEPT !.condition = condition.val]))
         [] node.type = "Project" ->
              unary("project", [NoParams EXCEPT !.columns = node.attrs.columns])
         [] node.type = "Sort" ->
              unary("sort", [NoParams EXCEPT !.key = node.attrs.key,
                                             !.ascending = node.attrs.ascending])
         [] node.type = "SortMergeJoin" -> join("sort_join")
         [] node.type = "BroadcastHashJoin" -> join("hash_join")
         [] node.type = "HashAggregate" ->
              unary("group_by", [NoParams EXCEPT !.group_cols = node.attrs.group_cols,
                                                 !.agg_exprs = node.attrs.agg_exprs])
         [] OTHER -> ParseFail("UnsupportedNodeKind", node.type)

\* A pass that does remove every single-child projection
RECURSIVE _remove_all_projections(_)
_remove_all_projections(node) ==
    IF node.op_type = "project" /\ Len(node.children) = 1
    THEN _remove_all_projections(node.children[1])
    ELSE [node EXCEPT !.children =
            [i \in 1..Len(node.children) |-> _remove_all_projections(node.children[i])]]

\* IROptimizer._remove_redundant_projections: rebuilds the children list and
\* removes nothing.
RECURSIVE _remove_redundant_projections(_)
_remove_redundant_projections(node) ==
    [node EXCEPT !.children =
        [i \in 1..Len(node.children) |-> _remove_redundant_projections(node.children[i])]]

canonicalize(ir) == _remove_redundant_projections(ir)

\* IROptimizer.optimize returns its argument.
optimize(ir) == ir

\* TQPPlanner.operator_dict: OpType -> implementation
OperatorDictKeys == {"filter", "project", "sort", "sort_join", "hash_join", "group_by", "scan"}

operator_dict(op_type) == IF op_type = "sort_join" THEN "sort_merge_join" ELSE op_type

\* A planner that emits a node's step before the steps of its children
RECURSIVE _build_plan_preorder(_, _)
RECURSIVE BuildChildrenPreorder(_, _, _)
BuildChildrenPreorder(children, i, program) ==
    IF i > Len(children) THEN program
    ELSE BuildChildrenPreorder(children, i + 1, _build_plan_preorder(children[i], program))

_build_plan_preorder(node, program) ==
    BuildChildrenPreorder(node.children, 1,
        IF node.op_type \in {"filter", "project", "sort", "sort_join", "hash_join", "group_by", "scan"}
        THEN Append(program, [type |-> "tuple", op |-> node.op_type,
                              op_func |-> <<IF node.op_type = "sort_join" THEN "sort_merge_join"
                                            ELSE node.op_type>>,
                              inputs |-> <<>>, output |-> <<>>, params |-> node.params])
        ELSE program)

\* TQPPlanner._build_plan: children first, left to right, then the node itself.
RECURSIVE _build_plan(_, _)
RECURSIVE BuildChildren(_, _, _)
BuildChildren(children, i, program) ==
    IF i > Len(children) THEN program
    ELSE BuildChildren(children, i + 1, _build_plan(children[i], program))

_build_plan(node, program) ==
    LET after == BuildChildren(node.children, 1, program)
    IN IF node.op_type \in OperatorDictKeys
       THEN Append(after, PlanElem("tuple", node.op_type, Some(operator_dict(node.op_type)),
                                   <<>>, None, node.params))
       ELSE after

\* TQPPlanner.plan
PlannerPlan(ir) == _build_plan(ir, <<>>)

-----------------------------------------------------------------------------
(* State *)

VARIABLES
    plan,        \* TQPExecutor.plan: the program, a sequence of plan elements
    tables,      \* the initial tables passed to execute (name -> TensorTable)
    env,         \* execute: the named environment
    tmp_counter, \* execute: the counter of generated __tmp<N> names
    last_name,   \* execute: the name of the last produced result, "" when none
    pc,          \* execute: the index of the next plan element (1-based)
    status,      \* "ready" (constructed), "running", "returned" or "raised"
    error,       \* the exception that left execute, NoErr when none
    result,      \* the table execute returned, <<>> when none
    trace,       \* history: one record per loop pass (locals before, StepOut after)
    previous,    \* history: the outcomes of the earlier execute calls on this executor
    opLeft,      \* RelationalOperators: the left input table of a join call
    opRight,     \* RelationalOperators: the right input table of a join call
    hjOut,       \* outcome of hash_join(opLeft, opRight, "id", "id"), <<>> before the call
    smjOut,      \* outcome of sort_merge_join(opLeft, opRight, "id", "id"), <<>> before the call
    opArgs,      \* RelationalOperators: the arguments, besides the table opLeft, of a single-table call
    opOut,       \* outcome of that sort / filter / group_by call, <<>> before the call
    spark_plan,  \* TQPCompiler.compile: the plan tree handed in, <<>> when none
    ir,          \* TQPCompiler.compile: the IR tree between the stages, <<>> before parsing
    stage        \* TQPCompiler.compile: how far the pipeline has come

execVars == <<plan, tables, env, tmp_counter, last_name, pc, status, error, result, trace, previous>>

opVars == <<opLeft, opRight, hjOut, smjOut, opArgs, opOut>>

pipeVars == <<spark_plan, ir, stage>>

vars == <<plan, tables, env, tmp_counter, last_name, pc, status, error, result, trace, previous,
          opLeft, opRight, hjOut, smjOut, opArgs, opOut, spark_plan, ir, stage>>

-----------------------------------------------------------------------------
(* The executor as a state machine: execute is entered (Start), runs one   *)
(* loop pass per plan element (Step) and resolves the final result         *)
(* (Finish).                                                               *)

EmptyEnv == [n \in {} |-> EmptyTable]

ExecIdle ==
    /\ env = EmptyEnv
    /\ tmp_counter = 0
    /\ last_name = ""
    /\ pc = 0
    /\ status = "ready"
    /\ error = NoErr
    /\ result = None
    /\ trace = <<>>
    /\ previous = <<>>

\* The arguments of a single-table operator call: which operator, and its
\* key_column / ascending, condition, or group_cols / agg_col / agg_func.
OpArgs(op, key_column, ascending, condition, group_cols, agg_col, agg_func) ==
    [op |-> op, key_column |-> key_column, ascending |-> ascending, condition |-> condition,
     group_cols |-> group_cols, agg_col |-> agg_col, agg_func |-> agg_func]

NoArgs == OpArgs("", "", TRUE, None, <<>>, "", "")

OpsIdle ==
    /\ opLeft = EmptyTable
    /\ opRight = EmptyTable
    /\ hjOut = None
    /\ smjOut = None
    /\ opArgs = NoArgs
    /\ opOut = None

PipeIdle ==
    /\ spark_plan = None
    /\ ir = None
    /\ stage = "idle"

\* An entry that keeps the environment on the executor and adds the tables
\* of each call to it
StartKeepsState ==
    /\ status = "ready"
    /\ IF plan = <<>>
       THEN /\ status' = "raised"
            /\ error' = Err("ValueError", "EmptyPlan", <<>>)
            /\ UNCHANGED <<env, pc>>
       ELSE /\ status' = "running"
            /\ env' = [n \in DOMAIN env \cup DOMAIN tables |->
                         IF n \in DOMAIN tables THEN tables[n] ELSE env[n]]
            /\ pc' = 1
            /\ UNCHANGED error
    /\ tmp_counter' = 0
    /\ last_name' = ""
    /\ UNCHANGED <<plan, tables, result, trace, previous>>
    /\ UNCHANGED opVars
    /\ UNCHANGED pipeVars

\* An entry that seeds the environment and enters the loop without looking
\* at the length of the plan
StartUnchecked ==
    /\ status = "ready"
    /\ status' = "running"
    /\ env' = tables
    /\ pc' = 1
    /\ tmp_counter' = 0
    /\ last_name' = ""
    /\ UNCHANGED <<plan, tables, error, result, trace, previous>>
    /\ UNCHANGED opVars
    /\ UNCHANGED pipeVars

\* execute: the empty-plan check and the seeding of env from tables
Start ==
    /\ status = "ready"
    /\ IF plan = <<>>
       THEN /\ status' = "raised"
            /\ error' = Err("ValueError", "EmptyPlan", <<>>)
            /\ UNCHANGED <<env, pc>>
       ELSE /\ status' = "running"
            /\ env' = tables
            /\ pc' = 1
            /\ UNCHANGED error
    /\ tmp_counter' = 0
    /\ last_name' = ""
    /\ UNCHANGED <<plan, tables, result, trace, previous>>
    /\ UNCHANGED opVars
    /\ UNCHANGED pipeVars

\* A loop that notes a failing element and goes on to the next one
StepContinues ==
    /\ status = "running"
    /\ pc <= Len(plan)
    /\ \E o \in StepOutcomes(plan[pc], env, last_name, tmp_counter) :
         /\ env' = o.env
         /\ last_name' = o.last_name
         /\ tmp_counter' = o.tmp_counter
         /\ trace' = Append(trace, [pre |-> [env |-> env, last_name |-> last_name,
                                             tmp_counter |-> tmp_counter],
                                    out |-> o])
         /\ pc' = pc + 1
         /\ UNCHANGED <<status, error>>
    /\ UNCHANGED <<plan, tables, result, previous>>
    /\ UNCHANGED opVars
    /\ UNCHANGED pipeVars

\* execute: one pass of "for elem in self.plan"
Step ==
    /\ status = "running"
    /\ pc <= Len(plan)
    /\ \E o \in StepOutcomes(plan[pc], env, last_name, tmp_counter) :
         /\ env' = o.env
         /\ last_name' = o.last_name
         /\ tmp_counter' = o.tmp_counter
         /\ trace' = Append(trace, [pre |-> [env |-> env, last_name |-> last_name,
                                             tmp_counter |-> tmp_counter],
                                    out |-> o])
         /\ IF o.err = NoErr
            THEN pc' = pc + 1 /\ UNCHANGED <<status, error>>
            ELSE status' = "raised" /\ error' = o.err /\ UNCHANGED pc
    /\ UNCHANGED <<plan, tables, result, previous>>
    /\ UNCHANGED opVars
    /\ UNCHANGED pipeVars

\* execute: after the loop, return env["final"], else env[last_name], else raise
Finish ==
    /\ status = "running"
    /\ pc > Len(plan)
    /\ LET r == FinalResult(env, last_name)
       IN IF r.err = NoErr
          THEN status' = "returned" /\ result' = r.val /\ UNCHANGED error
          ELSE status' = "raised" /\ error' = r.err /\ UNCHANGED result
    /\ UNCHANGED <<plan, tables, env, tmp_counter, last_name, pc, trace, previous>>
    /\ UNCHANGED opVars
    /\ UNCHANGED pipeVars

Next == Start \/ Step \/ Finish

\* All programs of at most n elements drawn from pool.
Programs(pool, n) == UNION {[1..k -> pool] : k \in 0..n}

\* The initial tables of the executor specifications.
TableA == InputTable(<<1, 2, 2>>, "v")
TableB == InputTable(<<2, 2, 3>>, "w")
TableFinal == InputTable(<<3>>, "v")
TablePending == InputTable(<<2>>, "v")

TableNamed(n) ==
    CASE n = "a" -> TableA
      [] n = "b" -> TableB
      [] n = "final" -> TableFinal
      [] n = pending_key -> TablePending

InitialTables(names) == [n \in names |-> TableNamed(n)]

IdLessThan3 == BinaryOp("lt", Column("id"), Literal(3))

Legacy(op, impl, params) == PlanElem("tuple", op, Some(impl), <<>>, None, params)
Node(op_func, inputs, output, params) == PlanElem("dict", "node", op_func, inputs, output, params)

JoinKeys == [NoParams EXCEPT !.left_key = Some("id"), !.right_key = Some("id")]

\* Programs of joins: steps that produce a last result, join steps, and
\* nodes writing the names `final` and `__pending_join`.
JoinPool ==
    { Legacy("filter", "filter", [NoParams EXCEPT !.table = Some("a"), !.condition = Some(IdLessThan3)]),
      Legacy("hash_join", "hash_join", JoinKeys),
      Legacy("sort_join", "sort_merge_join", JoinKeys),
      Legacy("hash_join", "hash_join", [NoParams EXCEPT !.left_key = Some("id")]),
      Node(Some("op_inputs_params"), <<"b">>, Some("final"), NoParams),
      Node(Some("op_table"), <<"b">>, Some(pending_key), NoParams) }

Init ==
    /\ plan \in Programs(JoinPool, MaxSteps)
    /\ tables \in {InitialTables(S) : S \in {{"a", "b"}, {"a", "b", "final"}, {"a", "b", pending_key}}}
    /\ ExecIdle
    /\ OpsIdle
    /\ PipeIdle

Spec == Init /\ [][Next]_vars

-----------------------------------------------------------------------------
(* Programs of legacy single-input steps, with every combination of a set  *)
(* or empty last name and present or absent params.table / params.input    *)

IdLessThan2 == BinaryOp("lt", Column("id"), Literal(2))

SumOfW == [column |-> Some("w"), function |-> Some("sum")]

LegacyPool ==
    { Legacy("filter", "filter", [NoParams EXCEPT !.table = Some("a"), !.condition = Some(IdLessThan2)]),
      Legacy("filter", "filter", [NoParams EXCEPT !.condition = Some(IdLessThan2)]),
      Legacy("project", "project", [NoParams EXCEPT !.input = Some("b"), !.columns = Some(<<"id">>)]),
      Legacy("project", "project", [NoParams EXCEPT !.table = Some("zz"), !.input = Some("b"),
                                                    !.columns = Some(<<"id">>)]),
      Legacy("sort", "sort", [NoParams EXCEPT !.table = Some("a"), !.input = Some("b"),
                                              !.key = Some("id")]),
      Legacy("scan", "scan", [NoParams EXCEPT !.table = Some("a")]),
      Legacy("group_by", "group_by", [NoParams EXCEPT !.input = Some("b"), !.group_cols = Some(<<"id">>),
                                                      !.agg_exprs = Some(<<SumOfW>>)]),
      Legacy("hash_join", "hash_join", JoinKeys),
      Node(Some("op_table"), <<"b">>, None, NoParams) }

LegacyInit ==
    /\ plan \in Programs(LegacyPool, MaxLegacySteps)
    /\ tables = InitialTables({"a", "b"})
    /\ ExecIdle
    /\ OpsIdle
    /\ PipeIdle

SpecLegacy == LegacyInit /\ [][Next]_vars

-----------------------------------------------------------------------------
(* Several execute calls on one executor with the same tables: self.plan   *)
(* is kept; env, tmp_counter and last_name are locals of the call, which    *)
(* the next call finds as the last one left them until it assigns them      *)

MaxCalls == 2

\* execute has returned or raised; the caller calls it again.
CallAgain ==
    /\ status \in {"returned", "raised"}
    /\ Len(previous) < MaxCalls - 1
    /\ previous' = Append(previous, [status |-> status, error |-> error, result |-> result])
    /\ status' = "ready"
    /\ error' = NoErr
    /\ result' = None
    /\ trace' = <<>>
    /\ pc' = 0
    /\ UNCHANGED <<plan, tables, env, tmp_counter, last_name>>
    /\ UNCHANGED opVars
    /\ UNCHANGED pipeVars

ReuseNext == Next \/ CallAgain

SpecReuse == LegacyInit /\ [][ReuseNext]_vars

-----------------------------------------------------------------------------
(* Programs of legacy group_by steps: one or several aggregate expressions, *)
(* and params that lack agg_exprs, group_cols or an expression's column     *)

CountOfId == [column |-> Some("id"), function |-> Some("count")]
SumOfNothing == [column |-> None, function |-> Some("sum")]

GroupBy(params) == Legacy("group_by", "group_by", params)

GroupByPool ==
    { Legacy("filter", "filter", [NoParams EXCEPT !.table = Some("b"), !.condition = Some(IdLessThan3)]),
      GroupBy([NoParams EXCEPT !.input = Some("b"), !.group_cols = Some(<<"id">>),
                               !.agg_exprs = Some(<<SumOfW>>)]),
      GroupBy([NoParams EXCEPT !.input = Some("b"), !.group_cols = Some(<<"id">>),
                               !.agg_exprs = Some(<<SumOfW, CountOfId>>)]),
      GroupBy([NoParams EXCEPT !.input = Some("b"), !.group_cols = Some(<<"id">>),
                               !.agg_exprs = Some(<<CountOfId, SumOfW>>)]),
      GroupBy([NoParams EXCEPT !.input = Some("b"), !.group_cols = Some(<<"id">>)]),
      GroupBy([NoParams EXCEPT !.input = Some("b"), !.group_cols = Some(<<"id">>),
                               !.agg_exprs = Some(<<>>)]),
      GroupBy([NoParams EXCEPT !.input = Some("b"), !.agg_exprs = Some(<<SumOfW>>)]),
      GroupBy([NoParams EXCEPT !.input = Some("b"), !.group_cols = Some(<<"id">>),
                               !.agg_exprs = Some(<<SumOfNothing, SumOfW>>)]),
      GroupBy([NoParams EXCEPT !.group_cols = Some(<<"id">>), !.agg_exprs = Some(<<SumOfW>>)]) }

GroupByInit ==
    /\ plan \in Programs(GroupByPool, MaxLegacySteps)
    /\ tables = InitialTables({"a", "b"})
    /\ ExecIdle
    /\ OpsIdle
    /\ PipeIdle

SpecGroupBy == GroupByInit /\ [][Next]_vars

-----------------------------------------------------------------------------
(* Programs whose steps fail in each of the ways a step can: no input, a    *)
(* missing required param, a raising operator, an unsupported plan element; *)
(* execute, once called, runs until it returns or raises                    *)

AbortPool ==
    { Legacy("filter", "filter", [NoParams EXCEPT !.table = Some("a"), !.condition = Some(IdLessThan3)]),
      Legacy("filter", "filter", [NoParams EXCEPT !.condition = Some(IdLessThan3)]),
      Legacy("project", "project", [NoParams EXCEPT !.table = Some("a")]),
      Legacy("sort", "sort", [NoParams EXCEPT !.table = Some("a"), !.key = Some("zz")]),
      PlanElem("other", "", None, <<>>, None, NoParams),
      Node(Some("op_table"), <<"b">>, Some("final"), NoParams) }

AbortInit ==
    /\ plan \in Programs(AbortPool, MaxLegacySteps)
    /\ tables = InitialTables({"a", "b"})
    /\ ExecIdle
    /\ OpsIdle
    /\ PipeIdle

SpecAbort == AbortInit /\ [][Next]_vars /\ WF_vars(Next)

-----------------------------------------------------------------------------
(* Programs of explicit nodes: operator implementations of every parameter *)
(* contract, inputs present, missing or produced by an earlier node        *)

OneParam == [NoParams EXCEPT !.key = Some("id")]

ExplicitPool ==
    { Node(Some("op_inputs_params"), <<"b">>, None, NoParams),
      Node(Some("op_inputs_params"), <<"x">>, Some("y"), OneParam),
      Node(Some("op_inputs_params"), <<"a", "zz">>, Some("x"), NoParams),
      Node(Some("op_table_kwargs"), <<"b">>, Some("x"), OneParam),
      Node(Some("op_table"), <<"b">>, Some("final"), OneParam),
      Node(Some("op_table"), <<"b">>, None, NoParams),
      Node(Some("op_table"), <<"yy", "x", "zz">>, None, NoParams),
      Node(Some("op_noargs"), <<"b">>, Some("x"), NoParams),
      Node(Some("op_noargs"), <<>>, None, NoParams),
      Node(Some("op_raises"), <<"a">>, Some("x"), NoParams),
      Node(Some("scan"), <<"a">>, None, [NoParams EXCEPT !.table = Some("a")]),
      Node(None, <<"zz">>, Some("x"), NoParams),
      Node(None, <<"a">>, Some("x"), NoParams) }

ExplicitInit ==
    /\ plan \in Programs(ExplicitPool, MaxNodes)
    /\ tables = InitialTables({"a", "b"})
    /\ ExecIdle
    /\ OpsIdle
    /\ PipeIdle

SpecExplicit == ExplicitInit /\ [][Next]_vars

-----------------------------------------------------------------------------
(* TQPCompiler.compile followed by execute, on bounded plan trees:         *)
(* src/src/compiler/tqp_compiler.py                                        *)

NoTree == None

FileScan(t) ==
    SparkNode("FileScan", [NoParams EXCEPT !.table = Some(t), !.schema = Some(TableNamed(t).schema)],
              NoTree, NoTree, NoTree)

CondColumn(name) == Cond("column", Some(name), None, None, None)
CondLiteral(v) == Cond("literal", None, Some(v), None, None)
CondBinary(op, l, r) == Cond(op, None, None, Some(l), Some(r))

SumOfId == [column |-> Some("id"), function |-> Some("sum")]

\* The unary nodes a chain is built from: type and scalar entries.
ChainOps ==
    { [type |-> "Filter",
       attrs |-> [NoParams EXCEPT !.condition = Some(CondBinary("<", CondColumn("id"), CondLiteral(3)))]],
      [type |-> "Filter",
       attrs |-> [NoParams EXCEPT !.condition = Some(CondBinary("!=", CondColumn("id"), CondLiteral(3)))]],
      [type |-> "Project", attrs |-> [NoParams EXCEPT !.columns = Some(<<"id">>)]],
      [type |-> "Sort", attrs |-> [NoParams EXCEPT !.key = Some("id"), !.ascending = Some(FALSE)]],
      [type |-> "HashAggregate",
       attrs |-> [NoParams EXCEPT !.group_cols = Some(<<"id">>), !.agg_exprs = Some(<<SumOfId>>)]],
      [type |-> "Window", attrs |-> NoParams] }

\* The chain ops[1](ops[2](... (leaf))).
RECURSIVE Chain(_, _)
Chain(ops, leaf) ==
    IF ops = <<>> THEN leaf
    ELSE SparkNode(Head(ops).type, Head(ops).attrs, Some(Chain(Tail(ops), leaf)), NoTree, NoTree)

JoinTree(type, l, r) ==
    SparkNode(type, [NoParams EXCEPT !.left_key = Some("id"), !.right_key = Some("id"),
                                     !.join_type = Some("inner")],
              NoTree, Some(FileScan(l)), Some(FileScan(r)))

PlanTrees ==
    {Chain(ops, FileScan(t)) : ops \in UNION {[1..k -> ChainOps] : k \in 0..MaxChain}, t \in {"a", "b"}}
    \cup {JoinTree(type, l, r) : type \in {"SortMergeJoin", "BroadcastHashJoin"},
                                 l \in {"a", "b"}, r \in {"a", "b"}}

PipelineInit ==
    /\ spark_plan \in {Some(t) : t \in PlanTrees}
    /\ ir = None
    /\ stage = "input"
    /\ plan = <<>>
    /\ tables = InitialTables({"a", "b"})
    /\ ExecIdle
    /\ OpsIdle

\* compile, layer 1: parser.parse(spark_plan)
Parse ==
    /\ stage = "input"
    /\ LET r == _parse_node(spark_plan[1])
       IN IF r.err = NoErr
          THEN ir' = r.val /\ stage' = "parsed" /\ UNCHANGED <<status, error>>
          ELSE stage' = "failed" /\ status' = "raised" /\ error' = r.err /\ UNCHANGED ir
    /\ UNCHANGED <<plan, tables, env, tmp_counter, last_name, pc, result, trace, previous, spark_plan>>
    /\ UNCHANGED opVars

\* compile, layer 2: optimizer.canonicalize(ir)
Canonicalize ==
    /\ stage = "parsed"
    /\ ir' = Some(canonicalize(ir[1]))
    /\ stage' = "canonical"
    /\ UNCHANGED <<execVars, opVars, spark_plan>>

\* compile, layer 2: optimizer.optimize(ir)
Optimize ==
    /\ stage = "canonical"
    /\ ir' = Some(optimize(ir[1]))
    /\ stage' = "optimized"
    /\ UNCHANGED <<execVars, opVars, spark_plan>>

\* compile, layers 3 and 4: TQPExecutor(planner.plan(ir))
PlanProgram ==
    /\ stage = "optimized"
    /\ plan' = PlannerPlan(ir[1])
    /\ stage' = "planned"
    /\ UNCHANGED <<tables, env, tmp_counter, last_name, pc, status, error, result, trace, previous>>
    /\ UNCHANGED <<opVars, spark_plan, ir>>

\* executor.execute(tables), from entry to return or raise
Execute ==
    /\ stage = "planned"
    /\ \E o \in execute(plan, tables) :
          /\ status' = o.status
          /\ error' = o.error
          /\ result' = o.result
    /\ stage' = "executed"
    /\ UNCHANGED <<plan, tables, env, tmp_counter, last_name, pc, trace, previous>>
    /\ UNCHANGED <<opVars, spark_plan, ir>>

PipelineNext == Parse \/ Canonicalize \/ Optimize \/ PlanProgram \/ Execute

SpecPipeline == PipelineInit /\ [][PipelineNext]_vars

-----------------------------------------------------------------------------
(* Specification of the optimizer passes and the planner on IR trees given  *)
(* directly, which may hold kinds the parser never produces (OpType.LIMIT), *)
(* besides parsed plans                                                     *)

MaxIRDepth == 2

IRLeaves ==
    {IRNode("scan", <<>>, [NoParams EXCEPT !.table = Some(t)]) : t \in {"a", "b"}}
    \cup {IRNode("limit", <<>>, NoParams)}

IRUnary(c) ==
    { IRNode("filter", <<c>>, [NoParams EXCEPT !.condition = Some(IdLessThan3)]),
      IRNode("limit", <<c>>, NoParams) }

IRBinary(l, r) ==
    { IRNode("hash_join", <<l, r>>, JoinKeys),
      IRNode("limit", <<l, r>>, NoParams) }

\* IR trees of depth at most d; a two-child node has a leaf on one side.
RECURSIVE IRTrees(_)
IRTrees(d) ==
    IF d = 0 THEN IRLeaves
    ELSE LET sub == IRTrees(d - 1)
         IN IRLeaves
            \cup UNION {IRUnary(c) : c \in sub}
            \cup UNION {IRBinary(l, r) : l \in sub, r \in IRLeaves}
            \cup UNION {IRBinary(l, r) : l \in IRLeaves, r \in sub}

\* Joins whose operands are chains of at most one unary node over a scan.
NestedJoinTrees ==
    LET operands == {Chain(ops, FileScan(t)) : ops \in UNION {[1..k -> ChainOps] : k \in 0..1},
                                               t \in {"a", "b"}}
    IN {SparkNode(type, [NoParams EXCEPT !.left_key = Some("id"), !.right_key = Some("id"),
                                         !.join_type = Some("inner")],
                  NoTree, Some(l), Some(r)) :
          type \in {"SortMergeJoin", "BroadcastHashJoin"}, l \in operands, r \in operands}

PlannerInit ==
    \/ PipelineInit
    \/ /\ spark_plan \in {Some(t) : t \in NestedJoinTrees}
       /\ ir = None
       /\ stage = "input"
       /\ plan = <<>>
       /\ tables = InitialTables({"a", "b"})
       /\ ExecIdle
       /\ OpsIdle
    \/ /\ spark_plan = None
       /\ ir \in {Some(t) : t \in IRTrees(MaxIRDepth)}
       /\ stage = "parsed"
       /\ plan = <<>>
       /\ tables = InitialTables({"a", "b"})
       /\ ExecIdle
       /\ OpsIdle

SpecPlanner == PlannerInit /\ [][PipelineNext]_vars

-----------------------------------------------------------------------------
(* Specification of the join operators on bounded input tables             *)

KeyCols == UNION {[1..n -> KeyValues] : n \in 0..MaxRows}

OpsInit ==
    /\ plan = <<>>
    /\ tables = EmptyEnv
    /\ ExecIdle
    /\ opLeft \in {InputTable(ids, "v") : ids \in KeyCols}
    /\ opRight \in {InputTable(ids, "w") : ids \in KeyCols}
    /\ hjOut = None
    /\ smjOut = None
    /\ opArgs = NoArgs
    /\ opOut = None
    /\ PipeIdle

CallHashJoin ==
    /\ hjOut = None
    /\ \E r \in hash_join(opLeft, opRight, "id", "id") : hjOut' = Some(r)
    /\ UNCHANGED <<opLeft, opRight, smjOut, opArgs, opOut>>
    /\ UNCHANGED execVars
    /\ UNCHANGED pipeVars

CallSortMergeJoin ==
    /\ smjOut = None
    /\ \E r \in sort_merge_join(opLeft, opRight, "id", "id") : smjOut' = Some(r)
    /\ UNCHANGED <<opLeft, opRight, hjOut, opArgs, opOut>>
    /\ UNCHANGED execVars
    /\ UNCHANGED pipeVars

OpsNext == CallHashJoin \/ CallSortMergeJoin

SpecOps == OpsInit /\ [][OpsNext]_vars

-----------------------------------------------------------------------------
(* Specification of sort / filter / group_by on bounded input tables       *)

GroupValues == {1, 2}

\* A table with numeric columns "id", "g" and "v" (v the row number) and a
\* text column "name" whose row k is the one-character code array <<64 + k>>.
UnaryTable(ids, gs) ==
    TensorTable(<<"id", "g", "v", "name">>,
                [c \in {"id", "g", "v", "name"} |->
                    CASE c = "id" -> ids
                      [] c = "g" -> gs
                      [] c = "v" -> [k \in 1..Len(ids) |-> k]
                      [] c = "name" -> [k \in 1..Len(ids) |-> <<64 + k>>]],
                [c \in {"id", "g", "v", "name"} |-> IF c = "name" THEN "string" ELSE "numeric"])

UnaryTables ==
    UNION {{UnaryTable(ids, gs) : ids \in [1..n -> KeyValues], gs \in [1..n -> GroupValues]}
           : n \in 0..MaxRows}

\* The scenario table: lineitem with l_quantity = [10, 30, 5, 24].
Lineitem ==
    TensorTable(<<"l_quantity">>, [c \in {"l_quantity"} |-> <<10, 30, 5, 24>>],
                [c \in {"l_quantity"} |-> "numeric"])

QuantityBelow24 == BinaryOp("lt", Column("l_quantity"), Literal(24))

SortArgs ==
    {OpArgs("sort", k, asc, None, <<>>, "", "") : k \in {"id", "zz"}, asc \in BOOLEAN}

FilterConditions ==
    { BinaryOp("lt", Column("id"), Literal(2)),
      BinaryOp("eq", Column("id"), Column("g")),
      BinaryOp("and", BinaryOp("gt", Column("id"), Literal(1)),
                      BinaryOp("lt", Column("g"), Literal(2))),
      BinaryOp("add", Column("id"), Column("g")),
      BinaryOp("gt", Column("zz"), Literal(1)) }

FilterArgs == {OpArgs("filter", "", TRUE, Some(c), <<>>, "", "") : c \in FilterConditions}

GroupByArgs ==
    {OpArgs("group_by", "", TRUE, None, gc, "v", f)
        : gc \in {<<"id">>, <<"id", "g">>}, f \in AggFns \cup {"median"}}

UnaryInit ==
    /\ \/ opLeft \in UnaryTables /\ opArgs \in SortArgs \cup FilterArgs \cup GroupByArgs
       \/ opLeft = Lineitem /\ opArgs = OpArgs("filter", "", TRUE, Some(QuantityBelow24), <<>>, "", "")
    /\ opOut = None
    /\ opRight = EmptyTable
    /\ hjOut = None
    /\ smjOut = None
    /\ plan = <<>>
    /\ tables = EmptyEnv
    /\ ExecIdle
    /\ PipeIdle

CallSort ==
    /\ opOut = None
    /\ opArgs.op = "sort"
    /\ \E r \in sort(opLeft, opArgs.key_column, opArgs.ascending) : opOut' = Some(r)
    /\ UNCHANGED <<opLeft, opRight, hjOut, smjOut, opArgs>>
    /\ UNCHANGED execVars
    /\ UNCHANGED pipeVars

CallFilter ==
    /\ opOut = None
    /\ opArgs.op = "filter"
    /\ \E r \in filter(opLeft, opArgs.condition[1]) : opOut' = Some(r)
    /\ UNCHANGED <<opLeft, opRight, hjOut, smjOut, opArgs>>
    /\ UNCHANGED execVars
    /\ UNCHANGED pipeVars

CallGroupBy ==
    /\ opOut = None
    /\ opArgs.op = "group_by"
    /\ \E r \in group_by(opLeft, opArgs.group_cols, opArgs.agg_col, opArgs.agg_func) :
          opOut' = Some(r)
    /\ UNCHANGED <<opLeft, opRight, hjOut, smjOut, opArgs>>
    /\ UNCHANGED execVars
    /\ UNCHANGED pipeVars

UnaryNext == CallSort \/ CallFilter \/ CallGroupBy

SpecUnary == UnaryInit /\ [][UnaryNext]_vars

-----------------------------------------------------------------------------
(* Programs over tables with numeric and text columns in which filter,     *)
(* project, sort, group_by and both joins produce the tables later steps   *)
(* read; scan, which no plan element can call with success, is called on   *)
(* the initial tables directly                                             *)

TablesPool ==
    { Legacy("filter", "filter", [NoParams EXCEPT !.table = Some("a"), !.condition = Some(IdLessThan2)]),
      Legacy("project", "project", [NoParams EXCEPT !.input = Some("a"), !.columns = Some(<<"name", "id">>)]),
      Legacy("project", "project", [NoParams EXCEPT !.columns = Some(<<"right_id", "left_name">>)]),
      Legacy("sort", "sort", [NoParams EXCEPT !.input = Some("a"), !.key = Some("id")]),
      Legacy("group_by", "group_by",
             [NoParams EXCEPT !.input = Some("a"), !.group_cols = Some(<<"id">>),
                              !.agg_exprs = Some(<<[column |-> Some("v"), function |-> Some("sum")]>>)]),
      Node(Some("hash_join"), <<"a", "b">>, Some("x"), JoinKeys),
      Node(Some("sort_merge_join"), <<"b", "a">>, None, JoinKeys) }

TablesInit ==
    /\ plan \in Programs(TablesPool, MaxChain)
    /\ \E n \in {0, MaxRows - 1} : \E ids \in [1..n -> GroupValues] :
          tables = [t \in {"a", "b"} |->
                        IF t = "a" THEN UnaryTable(ids, ids) ELSE UnaryTable(<<1>>, <<1>>)]
    /\ ExecIdle
    /\ OpsIdle
    /\ PipeIdle

CallScan ==
    /\ opOut = None
    /\ \E table_name \in DOMAIN tables \cup {"zz"} :
          \E r \in scan(table_name, tables) : opOut' = Some(r)
    /\ UNCHANGED <<opLeft, opRight, hjOut, smjOut, opArgs>>
    /\ UNCHANGED execVars
    /\ UNCHANGED pipeVars

TablesNext == Next \/ CallScan

SpecTables == TablesInit /\ [][TablesNext]_vars

-----------------------------------------------------------------------------
(* Properties of the join operators                                        *)

Returned(out) == out # None /\ out[1].exc = ""
ResultOf(out) == out[1].val[1]

\* Row i of a table, as a column-name -> value map.
Row(t, i) == [c \in DOMAIN t.cols |-> t.cols[c][i]]

\* The rows of a table with their multiplicities.
RowBag(t) ==
    LET rows == {Row(t, i) : i \in 1..t.num_rows}
    IN [r \in rows |-> Cardinality({i \in 1..t.num_rows : Row(t, i) = r})]

\* The pairs <<i, j>> of a left row i and a right row j with equal keys.
MatchingPairs ==
    {<<i, j>> \in (1..opLeft.num_rows) \X (1..opRight.num_rows) :
        opLeft.cols["id"][i] = opRight.cols["id"][j]}

\* Output row k pairs left row i (renamed left_<col>) with right row j (renamed right_<col>).
PairsRows(t, k, i, j) ==
    /\ t.cols["left_id"][k] = opLeft.cols["id"][i]
    /\ t.cols["left_v"][k] = opLeft.cols["v"][i]
    /\ t.cols["right_id"][k] = opRight.cols["id"][j]
    /\ t.cols["right_w"][k] = opRight.cols["w"][j]

\* C9 as stated: hash_join and sort_merge_join return identical results on
\* identical inputs: same column names, same rows, in the same row order.
C9_IdenticalResults ==
    (Returned(hjOut) /\ Returned(smjOut)) => ResultOf(hjOut) = ResultOf(smjOut)

\* C9 as amended: hash_join and sort_merge_join return the same column names
\* in the same order, the same schema and the same rows with the same
\* multiplicities; only the order of the rows may differ.
C9_SameRowsAnyOrder ==
    (hjOut # None /\ smjOut # None) =>
        /\ hjOut[1].exc = smjOut[1].exc
        /\ Returned(hjOut) =>
             /\ ResultOf(hjOut).names = ResultOf(smjOut).names
             /\ ResultOf(hjOut).schema = ResultOf(smjOut).schema
             /\ ResultOf(hjOut).num_rows = ResultOf(smjOut).num_rows
             /\ RowBag(ResultOf(hjOut)) = RowBag(ResultOf(smjOut))

\* Both joins returned several rows and the two results differ in row order.
C9_Witness ==
    /\ Returned(hjOut) /\ Returned(smjOut)
    /\ ResultOf(hjOut).num_rows >= 2
    /\ ResultOf(hjOut) # ResultOf(smjOut)
    /\ RowBag(ResultOf(hjOut)) = RowBag(ResultOf(smjOut))

JoinMultiplicity(out) ==
    Returned(out) =>
        LET t == ResultOf(out)
        IN IF MatchingPairs = {}
           THEN t.names = <<>> /\ DOMAIN t.cols = {} /\ DOMAIN t.schema = {} /\ t.num_rows = 0
           ELSE /\ t.num_rows = Cardinality(MatchingPairs)
                /\ t.names = <<"left_id", "left_v", "right_id", "right_w">>
                /\ \A c \in DOMAIN t.cols : Len(t.cols[c]) = t.num_rows
                /\ \A k \in 1..t.num_rows : \E p \in MatchingPairs : PairsRows(t, k, p[1], p[2])
                /\ \A p \in MatchingPairs :
                        Cardinality({k \in 1..t.num_rows : PairsRows(t, k, p[1], p[2])}) = 1

\* C10: for hash_join and for sort_merge_join the output has one row per pair
\* of a left row and a right row with equal keys (so its row count is the sum
\* over left rows of their matching right rows), each output row holding the
\* left row under left_<col> and the right row under right_<col>;
\* left.id=[1,2,2] with right.id=[2,2,3] gives exactly 4 rows, all of id 2;
\* with no matching pair the result has no columns and no rows.
C10_JoinMultiplicity ==
    /\ JoinMultiplicity(hjOut)
    /\ JoinMultiplicity(smjOut)
    /\ \A out \in {hjOut, smjOut} :
         (Returned(out) /\ opLeft.cols["id"] = <<1, 2, 2>> /\ opRight.cols["id"] = <<2, 2, 3>>) =>
             /\ ResultOf(out).num_rows = 4
             /\ \A k \in 1..4 : ResultOf(out).cols["left_id"][k] = 2
                                /\ ResultOf(out).cols["right_id"][k] = 2

\* Both joins ran on left.id=[1,2,2], right.id=[2,2,3].
C10_Witness ==
    /\ opLeft.cols["id"] = <<1, 2, 2>> /\ opRight.cols["id"] = <<2, 2, 3>>
    /\ Returned(hjOut) /\ Returned(smjOut)
    /\ ResultOf(hjOut).num_rows = 4 /\ ResultOf(smjOut).num_rows = 4

-----------------------------------------------------------------------------
(* Properties of the executor                                              *)

\* Loop pass i ran a legacy sort_join / hash_join element.
IsJoinStep(i) ==
    /\ plan[i].type = "tuple"
    /\ plan[i].params.isdict
    /\ plan[i].op \in {"sort_join", "hash_join"}

\* Loop pass i ran to its end without raising.
Completed(i) == trace[i].out.err = NoErr

\* The invocations made during loop passes 1..n.
RECURSIVE CallsUpTo(_)
CallsUpTo(n) == IF n = 0 THEN <<>> ELSE CallsUpTo(n - 1) \o trace[n].out.calls

\* The pending left operand after loop passes 1..n as the two-step buffering
\* defines it: the first completed join step stashes the table at the last
\* name, the next completed one consumes it, other steps leave it alone.
RECURSIVE PendingJoinLeft(_)
PendingJoinLeft(n) ==
    IF n = 0 THEN None
    ELSE IF IsJoinStep(n) /\ Completed(n)
         THEN IF PendingJoinLeft(n - 1) = None /\ trace[n].pre.last_name \in DOMAIN trace[n].pre.env
              THEN Some(trace[n].pre.env[trace[n].pre.last_name])
              ELSE None
         ELSE PendingJoinLeft(n - 1)

\* The first-encounter half of C4: the last result is stashed, the last name
\* cleared, nothing invoked and no output entry added.
StashesLeft(i) ==
    LET pre == trace[i].pre
        out == trace[i].out
    IN /\ out.event = "stash"
       /\ out.calls = <<>>
       /\ out.last_name = ""
       /\ DOMAIN out.env \ {pending_key} = DOMAIN pre.env \ {pending_key}
       /\ \A n \in DOMAIN pre.env \ {pending_key} : out.env[n] = pre.env[n]

\* The second-encounter half of C4: one invocation impl(left, right, left_key,
\* right_key) on the stashed table and the last result, the slot cleared and
\* the result made the last result.
JoinsPending(i) ==
    LET pre == trace[i].pre
        out == trace[i].out
        output_name == TmpName(pre.tmp_counter)
    IN /\ out.event = "join"
       /\ Len(out.calls) = 1
       /\ out.calls[1].impl = plan[i].op_func[1]
       /\ pre.last_name \in DOMAIN pre.env
       /\ out.calls[1].pos = <<Arg("table", PendingJoinLeft(i - 1)[1]),
                               Arg("table", pre.env[pre.last_name]),
                               Arg("str", plan[i].params.left_key[1]),
                               Arg("str", plan[i].params.right_key[1])>>
       /\ pending_key \notin DOMAIN out.env
       /\ Completed(i) => /\ out.last_name = output_name
                          /\ output_name \in DOMAIN out.env
                          /\ out.calls[1].exc = ""

JoinCallCount == Cardinality({c \in DOMAIN CallsUpTo(Len(trace)) :
                                 CallsUpTo(Len(trace))[c].impl \in {"hash_join", "sort_merge_join"}})

CompletedJoinSteps == Cardinality({i \in 1..Len(trace) : IsJoinStep(i) /\ Completed(i)})

\* No loop pass so far raised.
NoStepRaised == \A i \in 1..Len(trace) : Completed(i)

\* C4 as stated: a join step reached with no pending left stashes the table at
\* the last name, clears the last name, invokes nothing and adds no output
\* entry; the next join step invokes impl(stashed left, table at the last name,
\* left_key, right_key) once, clears the pending slot and makes the result the
\* last result; hence after any program whose steps all completed the join
\* implementation has been invoked exactly floor(k/2) times, k the number of
\* completed join steps.
C4_JoinBuffering ==
    /\ \A i \in 1..Len(trace) :
         (IsJoinStep(i) /\ trace[i].pre.last_name # "") =>
            IF PendingJoinLeft(i - 1) = None
            THEN StashesLeft(i)
            ELSE (plan[i].params.left_key # None /\ plan[i].params.right_key # None)
                    => JoinsPending(i)
    /\ NoStepRaised => JoinCallCount = CompletedJoinSteps \div 2

\* C8 as stated: a join step reached with an empty last name raises
\* JoinOperandMissing without invoking the implementation: for the left
\* operand when no left operand is pending, for the right operand when one is
\* (as when two join steps follow each other).
C8_JoinOperandErrors ==
    \A i \in 1..Len(trace) :
        (IsJoinStep(i) /\ trace[i].pre.last_name = "") =>
            /\ trace[i].out.err = Err("RuntimeError", "JoinOperandMissing",
                                      IF PendingJoinLeft(i - 1) = None
                                      THEN <<"left">> ELSE <<"right">>)
            /\ trace[i].out.calls = <<>>
            /\ i = Len(trace) /\ status = "raised" /\ error = trace[i].out.err

\* Every element of the program ran and none raised.
AllStepsRan ==
    /\ plan # <<>>
    /\ status \in {"returned", "raised"}
    /\ Len(trace) = Len(plan)
    /\ NoStepRaised

\* C5: once all steps ran without error, execute returns the entry named
\* `final` if the environment has one (from a step or from the initial
\* tables), else the table at the last name if that is set and present, else
\* it raises EmptyResult; so a program ending in a first-encounter join, with
\* no `final` entry, raises EmptyResult whatever earlier steps produced.
C5_FinalResult ==
    /\ AllStepsRan =>
         IF "final" \in DOMAIN env
         THEN status = "returned" /\ result = Some(env["final"])
         ELSE IF last_name # "" /\ last_name \in DOMAIN env
         THEN status = "returned" /\ result = Some(env[last_name])
         ELSE status = "raised" /\ error = Err("RuntimeError", "EmptyResult", <<>>)
    /\ (AllStepsRan /\ trace[Len(trace)].out.event = "stash" /\ "final" \notin DOMAIN env)
          => status = "raised" /\ error.what = "EmptyResult"
    /\ status = "returned" => AllStepsRan

\* A program ending in a first-encounter join raised EmptyResult although
\* earlier steps had produced tables.
C5_Witness ==
    /\ AllStepsRan
    /\ trace[Len(trace)].out.event = "stash"
    /\ \E n \in DOMAIN env : n \notin DOMAIN tables /\ n # pending_key
    /\ status = "raised" /\ error.what = "EmptyResult"

-----------------------------------------------------------------------------
(* Properties of legacy input resolution                                   *)

\* Loop pass i ran a legacy scan / filter / project / sort / group_by element.
IsSingleInputStep(i) ==
    /\ plan[i].type = "tuple"
    /\ plan[i].params.isdict
    /\ plan[i].op \in {"scan", "filter", "project", "sort", "group_by"}

\* Loop pass i resolved table t as its input and passed it to whatever
\* invocation it made.
TookInput(i, t) ==
    LET out == trace[i].out
    IN /\ out.input = Some(t)
       /\ out.calls # <<>> =>
             LET first == out.calls[1].pos[1]
             IN CASE first.k = "table" -> first.v = t
                  [] first.k = "list" -> first.v = <<t>>
                  [] OTHER -> FALSE

\* C3: a legacy scan/filter/project/sort/group_by step takes the previous
\* step's result whenever a last name is set, whatever params.table and
\* params.input say; with an empty last name it takes the environment table
\* named by params.table, else the one named by params.input; with an empty
\* last name and neither param it raises NoInputAvailable and invokes nothing.
C3_LegacyInputResolution ==
    \A i \in 1..Len(trace) :
        IsSingleInputStep(i) =>
            LET pre == trace[i].pre
                out == trace[i].out
                params == plan[i].params
            IN IF pre.last_name # ""
               THEN /\ i > 1
                    /\ Completed(i - 1)
                    /\ trace[i - 1].out.last_name = pre.last_name
                    /\ pre.last_name \in DOMAIN pre.env
                    /\ TookInput(i, trace[i - 1].out.env[pre.last_name])
               ELSE IF params.table # None
               THEN params.table[1] \in DOMAIN pre.env => TookInput(i, pre.env[params.table[1]])
               ELSE IF params.input # None
               THEN params.input[1] \in DOMAIN pre.env => TookInput(i, pre.env[params.input[1]])
               ELSE /\ out.err = Err("RuntimeError", "NoInputAvailable", <<>>)
                    /\ out.calls = <<>>
                    /\ out.input = None
                    /\ i = Len(trace) /\ status = "raised" /\ error = out.err

\* A completed step whose params name a table of the environment took the
\* different table that the previous step had produced.
C3_Witness ==
    \E i \in 1..Len(trace) :
        /\ IsSingleInputStep(i) /\ Completed(i)
        /\ trace[i].pre.last_name # ""
        /\ plan[i].params.table # None
        /\ plan[i].params.table[1] \in DOMAIN trace[i].pre.env
        /\ trace[i].pre.env[trace[i].pre.last_name] # trace[i].pre.env[plan[i].params.table[1]]
        /\ trace[i].out.input = Some(trace[i].pre.env[trace[i].pre.last_name])

-----------------------------------------------------------------------------
(* Properties of explicit nodes and of the flexible call adapter           *)

\* Loop pass i ran an explicit node.
IsExplicitStep(i) == plan[i].type = "dict"

\* The input names of node i that the environment lacks when it is reached.
MissingInputs(i) == SelectSeq(plan[i].inputs, LAMBDA n : n \notin DOMAIN trace[i].pre.env)

\* The name node i stores under: its output, else the next generated name.
OutputName(i) ==
    IF plan[i].output # None /\ plan[i].output[1] # "" THEN plan[i].output[1]
    ELSE TmpName(trace[i].pre.tmp_counter)

\* The environment node i is reached with: the initial tables plus the
\* outputs of all earlier steps.
EnvOnEntry(i) == IF i = 1 THEN tables ELSE trace[i - 1].out.env

AdapterShapes == <<"inputs_params", "args_kwargs", "args">>

\* Invocation j of node i passes the arguments of call shape j.
ShapeArguments(i, j) ==
    LET call == trace[i].out.calls[j]
        inputs_vals == [k \in 1..Len(plan[i].inputs) |-> trace[i].pre.env[plan[i].inputs[k]]]
    IN /\ call.shape = AdapterShapes[j]
       /\ call.impl = plan[i].op_func[1]
       /\ call.pos = IF j = 1 THEN <<Arg("list", inputs_vals), Arg("dict", plan[i].params)>>
                     ELSE TablesAsArgs(inputs_vals)
       /\ call.kwnames = IF j = 2 THEN Range(Keys(plan[i].params)) ELSE {}

\* C6: the adapter invokes the implementation with the shapes (1) impl(inputs,
\* params), (2) impl(*inputs, **params), (3) impl(*inputs) in this order, each
\* attempted only when every earlier one was rejected (raised TypeError); the
\* outcome of the first shape not rejected is the node's outcome, so an
\* implementation accepting shape 1 is invoked once; when all three are
\* rejected the step raises OperatorCallFailed.
C6_FlexibleCallOrder ==
    \A i \in 1..Len(trace) :
        (IsExplicitStep(i) /\ plan[i].op_func # None /\ MissingInputs(i) = <<>>) =>
            LET out == trace[i].out
                n == Len(out.calls)
            IN /\ n \in 1..3
               /\ \A j \in 1..n : ShapeArguments(i, j)
               /\ \A j \in 1..(n - 1) : out.calls[j].exc = "TypeError"
               /\ out.calls[n].exc = "TypeError" =>
                     n = 3 /\ out.err = Err("TypeError", "OperatorCallFailed", <<>>)
               /\ out.calls[n].exc \notin {"", "TypeError"} =>
                     out.err = Err(out.calls[n].exc, "OperatorRaised", <<>>)
               /\ out.calls[n].exc = "" =>
                     /\ Completed(i)
                     /\ plan[i].op_func[1] \in StubImpls =>
                          out.env[OutputName(i)] =
                              StubResult(Len(out.calls[n].pos), Cardinality(out.calls[n].kwnames))
               /\ ~Completed(i) => i = Len(trace) /\ status = "raised" /\ error = out.err

\* An implementation taking one table and no keywords was reached through the
\* third shape after the first two were rejected.
C6_Witness ==
    \E i \in 1..Len(trace) :
        /\ IsExplicitStep(i) /\ Completed(i)
        /\ Len(trace[i].out.calls) = 3
        /\ trace[i].out.calls[3].shape = "args"
        /\ trace[i].out.calls[3].exc = ""

\* What C7 requires of explicit node i: with an input name missing from the
\* environment the step raises MissingInput naming every missing entry,
\* invokes nothing and stores nothing; with all inputs present the result is
\* stored at the node's output name, which becomes the last name.
InputsValidated(i) ==
    LET pre == trace[i].pre
        out == trace[i].out
    IN /\ pre.env = EnvOnEntry(i)
       /\ IF MissingInputs(i) # <<>>
          THEN /\ out.err = Err("KeyError", "MissingInput", MissingInputs(i))
               /\ out.calls = <<>>
               /\ out.env = pre.env /\ out.last_name = pre.last_name
               /\ i = Len(trace) /\ status = "raised" /\ error = out.err
          ELSE /\ out.calls # <<>>
               /\ Completed(i) => /\ out.last_name = OutputName(i)
                                  /\ OutputName(i) \in DOMAIN out.env
                                  /\ out.env = Put(pre.env, OutputName(i), out.env[OutputName(i)])
               /\ ~Completed(i) => out.env = pre.env

\* C7 as stated: every explicit node validates its inputs this way.
C7_AnyNodeInputValidation ==
    \A i \in 1..Len(trace) : IsExplicitStep(i) => InputsValidated(i)

\* C7 amended: every explicit node that carries an operator implementation
\* validates its inputs this way (a node without one raises for the missing
\* implementation before its inputs are looked at).
C7_InputValidation ==
    \A i \in 1..Len(trace) : (IsExplicitStep(i) /\ plan[i].op_func # None) => InputsValidated(i)

\* A node reached after an earlier node stored its output raised MissingInput
\* naming the two of its three inputs that the environment lacks.
C7_Witness ==
    /\ Len(trace) >= 2
    /\ IsExplicitStep(Len(trace)) /\ plan[Len(trace)].op_func # None
    /\ Len(MissingInputs(Len(trace))) = 2
    /\ Len(plan[Len(trace)].inputs) = 3
    /\ status = "raised"
    /\ error = Err("KeyError", "MissingInput", <<"yy", "zz">>)

-----------------------------------------------------------------------------
(* Properties of the pipeline                                              *)

\* Apply f to every table a set of outcomes holds; pass on what was raised.
Through(outcomes, f(_)) == UNION {IF o.exc = "" THEN f(o.val[1]) ELSE {o} : o \in outcomes}

\* A chain of Filter / Project / Sort / HashAggregate nodes over one FileScan.
RECURSIVE IsChain(_)
IsChain(node) ==
    \/ node.type = "FileScan"
    \/ /\ node.type \in {"Filter", "Project", "Sort", "HashAggregate"}
       /\ IsChain(node.child[1])

\* The chain's operators applied, innermost first, to the table its leaf names.
RECURSIVE Applied(_, _)
Applied(node, named) ==
    CASE node.type = "FileScan" -> scan(node.attrs.table[1], named)
      [] node.type = "Filter" ->
           LET condition == _parse_condition(node.attrs.condition[1])
           IN IF condition.err # NoErr THEN {Raise("ValueError")}
              ELSE Through(Applied(node.child[1], named), LAMBDA t : filter(t, condition.val[1]))
      [] node.type = "Project" ->
           Through(Applied(node.child[1], named), LAMBDA t : project(t, node.attrs.columns[1]))
      [] node.type = "Sort" ->
           Through(Applied(node.child[1], named),
                   LAMBDA t : sort(t, node.attrs.key[1], node.attrs.ascending[1]))
      [] node.type = "HashAggregate" ->
           Through(Applied(node.child[1], named),
                   LAMBDA t : group_by(t, node.attrs.group_cols[1],
                                       node.attrs.agg_exprs[1][1].column[1],
                                       node.attrs.agg_exprs[1][1].function[1]))

\* C1 as stated: for a plan tree that is a chain of Filter / Project / Sort /
\* HashAggregate nodes over one FileScan naming a table of the initial
\* tables, the program from parse, canonicalize, optimize, plan executes
\* without raising and returns the table obtained by applying the chain's
\* operators, innermost first, to that table (the table itself for a bare
\* FileScan).
C1_PipelineSingleInput ==
    (/\ spark_plan # None
     /\ IsChain(spark_plan[1])
     /\ \A o \in Applied(spark_plan[1], tables) : o.exc = "") =>
        /\ stage # "failed"
        /\ stage = "executed" =>
             /\ status = "returned"
             /\ \E o \in Applied(spark_plan[1], tables) : result = Some(o.val[1])

\* A SortMergeJoin / BroadcastHashJoin whose two children are FileScan leaves.
IsJoinOfScans(node) ==
    /\ node.type \in {"SortMergeJoin", "BroadcastHashJoin"}
    /\ node.left[1].type = "FileScan"
    /\ node.right[1].type = "FileScan"

\* The equi-join of the two named tables, left operand first.
JoinOfScans(node, named) ==
    LET left == named[node.left[1].attrs.table[1]]
        right == named[node.right[1].attrs.table[1]]
    IN IF node.type = "SortMergeJoin"
       THEN sort_merge_join(left, right, node.attrs.left_key[1], node.attrs.right_key[1])
       ELSE hash_join(left, right, node.attrs.left_key[1], node.attrs.right_key[1])

\* The planner's program for a join of two scans: left scan, right scan, one
\* join step.
PostOrderJoinProgram ==
    /\ Len(plan) = 3
    /\ plan[1].op = "scan" /\ plan[1].params.table = spark_plan[1].left[1].attrs.table
    /\ plan[2].op = "scan" /\ plan[2].params.table = spark_plan[1].right[1].attrs.table
    /\ plan[3].op = (IF spark_plan[1].type = "SortMergeJoin" THEN "sort_join" ELSE "hash_join")
    /\ plan[3].op_func = Some(IF spark_plan[1].type = "SortMergeJoin" THEN "sort_merge_join"
                              ELSE "hash_join")

\* C2 as stated: for a SortMergeJoin / BroadcastHashJoin over FileScan leaves
\* naming tables a and b, the planner emits left subtree, right subtree, one
\* join step, and executing that program on initial tables containing a and b
\* returns the equi-join of a (left) with b (right) on left_key / right_key.
C2_PipelineJoin ==
    (spark_plan # None /\ IsJoinOfScans(spark_plan[1])) =>
        /\ stage # "failed"
        /\ stage \in {"planned", "executed"} => PostOrderJoinProgram
        /\ stage = "executed" =>
             /\ status = "returned"
             /\ \E o \in JoinOfScans(spark_plan[1], tables) :
                    o.exc = "" /\ result = Some(o.val[1])

-----------------------------------------------------------------------------
(* Properties of sort / filter / group_by                                  *)

\* The single-table call of operator op was made.
Called(op) == opArgs.op = op /\ opOut # None

\* The output of sort is the input with one row permutation p applied to
\* every column, and its key column is monotone in the requested direction.
SortedBy(p) ==
    LET out == ResultOf(opOut)
        n == opLeft.num_rows
        key == opLeft.cols[opArgs.key_column]
    IN /\ Len(p) = n /\ Range(p) = 1..n
       /\ out.names = opLeft.names
       /\ \A c \in DOMAIN opLeft.cols : out.cols[c] = Gather(opLeft.cols[c], p)
       /\ \A i \in 1..(n - 1) :
             IF opArgs.ascending THEN key[p[i]] <= key[p[i + 1]] ELSE key[p[i]] >= key[p[i + 1]]

\* Rows with equal keys keep their original relative order under p.
StableTieBreak(p) ==
    LET key == opLeft.cols[opArgs.key_column]
    IN \A i, j \in 1..Len(p) : (i < j /\ key[p[i]] = key[p[j]]) => p[i] < p[j]

\* C11 as stated: sort returns a row permutation of the input, the same for
\* every column, with the key column non-decreasing (ascending) or
\* non-increasing (descending), in which rows with equal keys keep their
\* original relative order.
C11_SortStable ==
    (Called("sort") /\ HasColumn(opLeft, opArgs.key_column)) =>
        /\ Returned(opOut)
        /\ SortedBy(ResultOf(opOut).cols["v"])
        /\ StableTieBreak(ResultOf(opOut).cols["v"])

\* The values of column agg_col on the input rows whose first group column
\* equals value, in input order.
GroupMembers(value) ==
    LET first == opLeft.cols[opArgs.group_cols[1]]
        rows == SelectSeq([k \in 1..opLeft.num_rows |-> k], LAMBDA k : first[k] = value)
    IN [k \in 1..Len(rows) |-> opLeft.cols[opArgs.agg_col][rows[k]]]

\* One output row per distinct value of the first group column, the output
\* column of that name holding those values, and the aggregate column
\* holding the cardinality (count) or sum/count (avg) of each group.
GroupedByFirstColumn ==
    LET out == ResultOf(opOut)
        first == opArgs.group_cols[1]
        agg_name == opArgs.agg_func \o "_" \o opArgs.agg_col
        distinct == Range(opLeft.cols[first])
    IN /\ DOMAIN out.cols = {first, agg_name}
       /\ out.num_rows = Cardinality(distinct)
       /\ Len(out.cols[first]) = Cardinality(distinct)
       /\ Range(out.cols[first]) = distinct
       /\ \A g \in 1..out.num_rows :
             LET vals == GroupMembers(out.cols[first][g])
             IN /\ opArgs.agg_func = "count" => out.cols[agg_name][g] = Len(vals)
                /\ opArgs.agg_func = "avg" =>
                      out.cols[agg_name][g] = Quotient(SumSeq(vals), Len(vals))

\* C12 as stated: for one or several group columns, group_by returns one row
\* per distinct value of group_cols[0], the output column group_cols[0] holds
\* those values, the aggregate column holds the group cardinality for count
\* and sum/count for avg, and an aggregate function outside
\* {sum, count, avg, min, max} fails as unsupported.
C12_GroupByOutput ==
    (/\ Called("group_by")
     /\ \A c \in Range(opArgs.group_cols) \cup {opArgs.agg_col} : HasColumn(opLeft, c)) =>
        IF opArgs.agg_func \in AggFns
        THEN Returned(opOut) /\ GroupedByFirstColumn
        ELSE opOut = Some(Raise("ValueError"))

\* The mask of the filter call, and the rows at which it is true.
FilterMask == compile(opArgs.condition[1], opLeft)
TrueRows == {k \in 1..opLeft.num_rows : FilterMask.val[1][k]}

\* The i-th true row in original order: the one with i - 1 true rows before it.
KeptRow(i) == CHOOSE k \in TrueRows : Cardinality({j \in TrueRows : j < k}) = i - 1

\* C13: filter keeps exactly the rows at which the compiled condition is
\* true, in their original relative order, every column (numeric or text)
\* carrying the values of the source rows; l_quantity = [10, 30, 5, 24]
\* filtered by l_quantity < 24 yields [10, 5].
C13_FilterKeepsTrueRows ==
    (Called("filter") /\ FilterMask.exc = "" /\ IsMask(opArgs.condition[1])) =>
        /\ Returned(opOut)
        /\ LET out == ResultOf(opOut)
           IN /\ out.num_rows = Cardinality(TrueRows)
              /\ out.names = opLeft.names
              /\ \A c \in DOMAIN opLeft.cols :
                    /\ Len(out.cols[c]) = Cardinality(TrueRows)
                    /\ \A i \in 1..Cardinality(TrueRows) :
                          out.cols[c][i] = opLeft.cols[c][KeptRow(i)]
              /\ (opLeft = Lineitem /\ opArgs.condition = Some(QuantityBelow24)) =>
                    out.cols["l_quantity"] = <<10, 5>>

\* The lineitem scenario has run and kept source rows 1 and 3.
C13_Witness ==
    /\ Called("filter") /\ Returned(opOut)
    /\ opLeft = Lineitem
    /\ TrueRows = {1, 3}
    /\ ResultOf(opOut).cols["l_quantity"] = <<10, 5>>

-----------------------------------------------------------------------------
(* Properties of the planner                                                *)

\* The nodes of an IR tree in post-order: the subtrees of the children, left
\* to right, then the node.
RECURSIVE PostOrder(_)
PostOrder(node) ==
    Flatten([i \in 1..Len(node.children) |-> PostOrder(node.children[i])]) \o <<node>>

\* The planner's operator table, kind by kind.
Implementation(op_type) ==
    CASE op_type = "filter" -> "filter"
      [] op_type = "project" -> "project"
      [] op_type = "sort" -> "sort"
      [] op_type = "sort_join" -> "sort_merge_join"
      [] op_type = "hash_join" -> "hash_join"
      [] op_type = "group_by" -> "group_by"
      [] op_type = "scan" -> "scan"

InOperatorTable(node) ==
    node.op_type \in {"filter", "project", "sort", "sort_join", "hash_join", "group_by", "scan"}

\* The number of nodes of an external plan tree.
RECURSIVE NodeCount(_)
NodeCount(node) ==
    1 + (IF node.child = None THEN 0 ELSE NodeCount(node.child[1]))
      + (IF node.left = None THEN 0 ELSE NodeCount(node.left[1]))
      + (IF node.right = None THEN 0 ELSE NodeCount(node.right[1]))

\* C14: the planned program has one step (kind name, implementation, params)
\* per IR node whose kind is in the operator table and none for a node of an
\* absent kind (limit), in post-order, children left to right before their
\* node; for an IR the parser produced the number of steps is the number of
\* nodes of the plan tree.
C14_PlannerLinearization ==
    stage \in {"planned", "executed"} =>
        LET emitted == SelectSeq(PostOrder(ir[1]), InOperatorTable)
        IN /\ Len(plan) = Len(emitted)
           /\ \A i \in 1..Len(emitted) :
                 /\ plan[i].type = "tuple"
                 /\ plan[i].op = emitted[i].op_type
                 /\ plan[i].op_func = Some(Implementation(emitted[i].op_type))
                 /\ plan[i].params = emitted[i].params
           /\ spark_plan # None => Len(plan) = NodeCount(spark_plan[1])

\* A tree with a limit node over two children, one of them not a leaf, was
\* planned: the limit node gave no step and its descendants gave theirs.
C14_Witness ==
    /\ stage = "planned"
    /\ ir[1].op_type = "limit"
    /\ Len(ir[1].children) = 2
    /\ ir[1].children[1].op_type = "filter"
    /\ Len(plan) = 3
    /\ plan[2].op = "filter"

-----------------------------------------------------------------------------
(* Properties of the parser                                                 *)

\* The child count fixed for each IR kind.
Arity(op_type) ==
    CASE op_type = "scan" -> 0
      [] op_type \in {"filter", "project", "sort", "group_by"} -> 1
      [] op_type \in {"hash_join", "sort_join"} -> 2

\* Column and literal expressions have no children, comparisons exactly two.
RECURSIVE WellFormed(_)
WellFormed(expr) ==
    CASE expr.expr_type \in {"column", "literal"} -> expr.children = <<>>
      [] expr.expr_type \in {"lt", "gt", "eq"} ->
           /\ Len(expr.children) = 2
           /\ WellFormed(expr.children[1])
           /\ WellFormed(expr.children[2])
      [] OTHER -> FALSE

\* The nodes of an external plan tree.
RECURSIVE SparkNodes(_)
SparkNodes(node) ==
    {node} \cup (IF node.child = None THEN {} ELSE SparkNodes(node.child[1]))
           \cup (IF node.left = None THEN {} ELSE SparkNodes(node.left[1]))
           \cup (IF node.right = None THEN {} ELSE SparkNodes(node.right[1]))

KnownTypes ==
    {"FileScan", "Filter", "Project", "Sort", "SortMergeJoin", "BroadcastHashJoin", "HashAggregate"}

\* Some condition of the tree uses an operator the parser does not know.
RECURSIVE BadCondition(_)
BadCondition(cond) ==
    CASE cond.op \in {"column", "literal"} -> FALSE
      [] cond.op \in {"<", ">", "="} -> BadCondition(cond.left[1]) \/ BadCondition(cond.right[1])
      [] OTHER -> TRUE

\* What the depth-first descent meets first: a node of unknown type when it
\* enters one, an unknown condition operator when it has parsed the subtree
\* of a Filter and turns to its condition; "" when the tree has neither.
RECURSIVE FirstDefect(_)
FirstDefect(node) ==
    IF node.type \notin KnownTypes THEN "UnsupportedNodeKind"
    ELSE LET below == SelectSeq([k \in 1..3 |->
                                   LET sub == <<node.child, node.left, node.right>>[k]
                                   IN IF sub = None THEN "" ELSE FirstDefect(sub[1])],
                                LAMBDA d : d # "")
         IN IF below # <<>> THEN below[1]
            ELSE IF node.type = "Filter" /\ BadCondition(node.attrs.condition[1])
            THEN "UnsupportedConditionOperator"
            ELSE ""

\* C15: every node of a tree parse returned has the child count of its kind
\* (0 scan; 1 filter, project, sort, group_by; 2 hash_join, sort_join), every
\* condition it built has no children for column / literal and two for
\* lt / gt / eq, and a node of unknown type, once the descent reaches it,
\* makes parse fail with UnsupportedNodeKind and return no tree.
C15_ParserArity ==
    (spark_plan # None /\ stage # "input") =>
        /\ ir # None =>
              \A i \in 1..Len(PostOrder(ir[1])) :
                 LET n == PostOrder(ir[1])[i]
                 IN /\ Len(n.children) = Arity(n.op_type)
                    /\ n.op_type = "filter" => WellFormed(n.params.condition[1])
        /\ (\E n \in SparkNodes(spark_plan[1]) : n.type \notin KnownTypes) =>
              /\ stage = "failed" /\ status = "raised" /\ ir = None
              /\ error.type = "ValueError"
        /\ FirstDefect(spark_plan[1]) = "UnsupportedNodeKind" =>
              /\ stage = "failed" /\ status = "raised" /\ ir = None
              /\ error.type = "ValueError" /\ error.what = "UnsupportedNodeKind"

\* A join whose left operand is a filter over a scan was parsed: nodes of
\* arity 2, 1 and 0 and a comparison over a column and a literal.
C15_Witness ==
    /\ spark_plan # None /\ stage = "parsed"
    /\ ir[1].op_type = "hash_join"
    /\ Len(ir[1].children) = 2
    /\ ir[1].children[1].op_type = "filter"
    /\ ir[1].children[1].children[1].op_type = "scan"
    /\ ir[1].children[1].params.condition[1].expr_type = "lt"

-----------------------------------------------------------------------------
(* Properties of the optimizer passes                                       *)

\* C16: canonicalize and optimize do not raise, return a tree with the same
\* nodes, kinds, params and child order as their input, and applying either
\* a second time gives what applying it once gave.
C16_PassesIdempotent ==
    [][ /\ (stage = "parsed" /\ stage' = "canonical") =>
              /\ status' = status /\ error' = error
              /\ ir' = ir
              /\ canonicalize(ir'[1]) = ir'[1]
              /\ canonicalize(canonicalize(ir[1])) = canonicalize(ir[1])
        /\ (stage = "canonical" /\ stage' = "optimized") =>
              /\ status' = status /\ error' = error
              /\ ir' = ir
              /\ optimize(ir'[1]) = ir'[1]
              /\ optimize(optimize(ir[1])) = optimize(ir[1]) ]_vars

\* Both passes have run on a tree that has a projection over a filter.
C16_Witness ==
    /\ stage = "optimized"
    /\ ir[1].op_type = "project"
    /\ Len(ir[1].children) = 1
    /\ ir[1].children[1].op_type = "filter"

-----------------------------------------------------------------------------
(* Properties of the legacy group_by step                                   *)

\* Loop pass i ran a legacy group_by element whose input table was resolved.
IsGroupByStep(i) ==
    /\ plan[i].type = "tuple" /\ plan[i].params.isdict /\ plan[i].op = "group_by"
    /\ trace[i].out.input # None

-----------------------------------------------------------------------------
(* Properties of execute as a whole                                         *)

\* C18: with an empty program the first thing execute does is raise
\* EmptyPlan, whatever the initial tables are, a table named `final`
\* included: nothing is returned, no step runs, the environment is never
\* seeded from the tables and the tables are left as they were.
C18_EmptyPlan ==
    [][ (plan = <<>> /\ status = "ready") =>
            /\ status' = "raised"
            /\ error' = Err("ValueError", "EmptyPlan", <<>>)
            /\ result' = None
            /\ trace' = <<>>
            /\ env' = env /\ env' = EmptyEnv
            /\ tables' = tables ]_vars

\* execute has raised on an empty program although a table named `final`
\* was there to return.
C18_Witness ==
    /\ plan = <<>>
    /\ status = "raised"
    /\ error = Err("ValueError", "EmptyPlan", <<>>)
    /\ "final" \in DOMAIN tables

\* C19 as stated: a legacy join step stashes exactly when no earlier, still
\* unmatched join step of this call stashed a left operand, and otherwise
\* joins with the operand that step stashed, whatever tables or node outputs
\* are named `__pending_join`.
C19_PendingIndependentOfNames ==
    \A i \in 1..Len(trace) :
        IsJoinStep(i) =>
            /\ trace[i].out.event = "stash" <=> PendingJoinLeft(i - 1) = None
            /\ (trace[i].out.event = "join" /\ trace[i].out.calls # <<>>) =>
                  /\ PendingJoinLeft(i - 1) # None
                  /\ trace[i].out.calls[1].pos[1] = Arg("table", PendingJoinLeft(i - 1)[1])

\* execute has returned or raised.
Terminated == status \in {"returned", "raised"}

\* C20: every loop pass runs the element at the next position of the
\* program, once, taking the locals the previous pass left; a pass that
\* raises ends execute with that exception, no later element being run and
\* no table returned; execute returns only after every element has run
\* without raising; and execute terminates.
C20_StrictOrderAndAbort ==
    /\ [][ /\ trace' # trace =>
                /\ status = "running" /\ pc = Len(trace) + 1 /\ pc <= Len(plan)
                /\ Len(trace') = pc
                /\ SubSeq(trace', 1, Len(trace)) = trace
                /\ trace'[pc].pre = [env |-> env, last_name |-> last_name,
                                     tmp_counter |-> tmp_counter]
                /\ trace'[pc].out \in StepOutcomes(plan[pc], env, last_name, tmp_counter)
                /\ IF trace'[pc].out.err = NoErr
                   THEN pc' = pc + 1 /\ status' = "running"
                   ELSE status' = "raised" /\ error' = trace'[pc].out.err /\ result' = None
           /\ Terminated => UNCHANGED vars
           /\ plan' = plan ]_vars
    /\ [](status = "raised" => result = None)
    /\ []((status = "raised" /\ trace # <<>> /\ ~Completed(Len(trace))) =>
             /\ error = trace[Len(trace)].out.err
             /\ \A i \in 1..(Len(trace) - 1) : Completed(i))
    /\ [](status = "returned" =>
             /\ Len(trace) = Len(plan)
             /\ \A i \in 1..Len(trace) : Completed(i))
    /\ <>Terminated

\* A step failed after the entry `final` had been written and with elements
\* of the program still to come: execute raised and returned no table.
C20_Witness ==
    /\ status = "raised"
    /\ "final" \in DOMAIN env
    /\ trace # <<>> /\ ~Completed(Len(trace))
    /\ Len(trace) < Len(plan)
    /\ result = None

\* The outcome of the current execute call.
Outcome == [status |-> status, error |-> error, result |-> result]

\* C21: execute never changes the caller's tables mapping (nor the plan);
\* every call starts from the tables alone, with an empty last name, counter
\* 0 and no pending join left of an earlier call; so the outcome of a call
\* is an outcome of a first call on the same tables, equal to that of the
\* earlier calls, also when those ended with a pending join left or raised.
C21_NoCrossCallSharing ==
    /\ [][ /\ tables' = tables /\ plan' = plan
           /\ (status = "ready" /\ status' = "running") =>
                 /\ env' = tables
                 /\ last_name' = "" /\ tmp_counter' = 0
                 /\ pending_key \in DOMAIN env' <=> pending_key \in DOMAIN tables ]_vars
    /\ [](status \in {"returned", "raised"} =>
             /\ Outcome \in execute(plan, tables)
             /\ \A k \in 1..Len(previous) :
                   /\ previous[k] \in execute(plan, tables)
                   /\ Cardinality(execute(plan, tables)) = 1 => previous[k] = Outcome)

\* A second call has ended like the first, which had ended with a left
\* operand stashed and nothing to return.
C21_Witness ==
    /\ previous # <<>>
    /\ status = "raised"
    /\ error = Err("RuntimeError", "EmptyResult", <<>>)
    /\ previous[1] = Outcome
    /\ pending_key \in DOMAIN env
    /\ pending_key \notin DOMAIN tables

\* TensorTable well-formedness: the schema has the keys of the columns, and
\* every column has num_rows elements.
WellFormedTable(t) ==
    /\ DOMAIN t.schema = DOMAIN t.cols
    /\ Range(t.names) = DOMAIN t.cols
    /\ \A c \in DOMAIN t.cols : Len(t.cols[c]) = t.num_rows

\* C22: if every initial table is well formed (all columns of length
\* num_rows, schema keys equal to the column keys), then so is every table
\* returned by a call of scan, filter, project, sort, sort_merge_join,
\* hash_join or group_by: the table a direct call returns, every entry of the
\* environment after any number of steps (each step stores what its operator
\* returned), and the table execute returns.
C22_WellFormedPreserved ==
    (\A n \in DOMAIN tables : WellFormedTable(tables[n])) =>
        /\ \A n \in DOMAIN env : WellFormedTable(env[n])
        /\ result # None => WellFormedTable(result[1])
        /\ Returned(opOut) => WellFormedTable(ResultOf(opOut))

\* A join has written its rows, text column included, to the environment and
\* a projection of them has been returned; scan has returned a table of the
\* caller as well.
C22_Witness ==
    /\ status = "returned"
    /\ "x" \in DOMAIN env /\ env["x"].num_rows > 0
    /\ "left_name" \in DOMAIN env["x"].cols
    /\ result # None /\ result[1].names = <<"right_id", "left_name">>
    /\ result[1].num_rows = env["x"].num_rows
    /\ Returned(opOut) /\ ResultOf(opOut).num_rows > 0

====
